---- MODULE Spec2Model ----
(***************************************************************************)
(* State-machine model of the calendar root of bits-ui                     *)
(* (packages/bits-ui/src/lib/bits/calendar/calendar.svelte.ts).            *)
(*                                                                         *)
(* A DateValue is a record [year, month, day, hour]; the hour stands for    *)
(* the time-of-day part of a CalendarDateTime, which isSameDay ignores.    *)
(* The selection is a tagged record: kind "undefined", "date" (a bare      *)
(* DateValue) or "array" (a DateValue[]), with the dates in items.         *)
(* Every handler is an operator from the current state to an effects       *)
(* record; an action applies the effects, then the watch(value) callback   *)
(* and the month-view synchronisation, as one atomic transition.           *)
(* The month view is rebuilt when the placeholder leaves the visible       *)
(* months; nextPage and prevPage set the visible months themselves.        *)
(*                                                                         *)
(* The toolbar toggle group (bits/progress/progress.svelte.ts), the        *)
(* accordion (unnamed/part_000) and the typeahead (unnamed/part_001) are   *)
(* independent of the calendar: each has its own variable and its own      *)
(* specifications, under which the calendar is left as constructed, and    *)
(* the calendar's specifications leave them as constructed.                *)
(***************************************************************************)
EXTENDS Integers, Sequences, FiniteSets, TLC

VARIABLES
    props,              \* the read-only boxed props of CalendarRootState
    value,              \* this.value.current
    placeholder,        \* this.placeholder.current
    months,             \* this.months
    announced,          \* announcer.announce calls made by the last transition
    onDateSelectCalls,  \* onDateSelect calls made by the last transition
    defaultPrevented,   \* event.preventDefault() called by the last key press
    threw,              \* the last transition's handler threw an Error
    last,               \* the operation the last transition performed
    toolbar,            \* a toolbar toggle group and its items
    accordion,          \* an accordion root, its items and their triggers
    typeahead,          \* a typeahead, its candidates and the focused one
    event               \* the last event a toolbar, accordion or typeahead took

calendarVars == <<props, value, placeholder, months, announced,
                  onDateSelectCalls, defaultPrevented, threw, last>>

widgetVars == <<toolbar, accordion, typeahead, event>>

vars == <<props, value, placeholder, months, announced, onDateSelectCalls,
          defaultPrevented, threw, last, toolbar, accordion, typeahead, event>>

-----------------------------------------------------------------------------
(* Bounds of the model *)

\* longest selection the model lets a multiple-mode calendar hold
MaxSel == 3

\* hours (time-of-day parts) a DateValue of the model may carry
Hours == {0, 1}

-----------------------------------------------------------------------------
(* The date capability (@internationalized/date) *)

Date(y, m, d, h) == [year |-> y, month |-> m, day |-> d, hour |-> h]

\* stands for `undefined` where a DateValue is optional
NoDate == Date(0, 0, 0, 0)

IsLeap(y) == (y % 4 = 0 /\ y % 100 # 0) \/ y % 400 = 0

DaysInMonth(y, m) ==
    IF m = 2 THEN (IF IsLeap(y) THEN 29 ELSE 28)
    ELSE IF m \in {4, 6, 9, 11} THEN 30 ELSE 31

Min(a, b) == IF a < b THEN a ELSE b

\* number of days from 1970-01-01 to the date (proleptic Gregorian calendar)
DayNumber(d) ==
    LET y   == IF d.month <= 2 THEN d.year - 1 ELSE d.year
        era == y \div 400
        yoe == y - era * 400
        mp  == (d.month + 9) % 12
        doy == (153 * mp + 2) \div 5 + d.day - 1
        doe == yoe * 365 + yoe \div 4 - yoe \div 100 + doy
    IN  era * 146097 + doe - 719468

\* the date of the day number n, with the time of day h
DateOfDayNumber(n, h) ==
    LET z   == n + 719468
        era == z \div 146097
        doe == z - era * 146097
        yoe == (doe - doe \div 1460 + doe \div 36524 - doe \div 146096) \div 365
        doy == doe - (365 * yoe + yoe \div 4 - yoe \div 100)
        mp  == (5 * doy + 2) \div 153
        m   == IF mp < 10 THEN mp + 3 ELSE mp - 9
        y   == yoe + era * 400 + (IF m <= 2 THEN 1 ELSE 0)
    IN  Date(y, m, doy - (153 * mp + 2) \div 5 + 1, h)

\* 0 = Sunday .. 6 = Saturday
DayOfWeek(d) == (DayNumber(d) + 4) % 7

isSameDay(a, b) == a.year = b.year /\ a.month = b.month /\ a.day = b.day

isSameMonth(a, b) == a.year = b.year /\ a.month = b.month

NextDay(d) ==
    IF d.day < DaysInMonth(d.year, d.month) THEN [d EXCEPT !.day = d.day + 1]
    ELSE IF d.month < 12 THEN [d EXCEPT !.month = d.month + 1, !.day = 1]
    ELSE [d EXCEPT !.year = d.year + 1, !.month = 1, !.day = 1]

PrevDay(d) ==
    IF d.day > 1 THEN [d EXCEPT !.day = d.day - 1]
    ELSE IF d.month > 1
         THEN [d EXCEPT !.month = d.month - 1,
                        !.day = DaysInMonth(d.year, d.month - 1)]
    ELSE [d EXCEPT !.year = d.year - 1, !.month = 12, !.day = 31]

RECURSIVE AddDays(_, _)
\* date.add({ days: n }) and date.subtract({ days: -n })
AddDays(d, n) ==
    IF n = 0 THEN d
    ELSE IF n > 0 THEN AddDays(NextDay(d), n - 1)
    ELSE AddDays(PrevDay(d), n + 1)

\* date.add({ months: n }): the day is constrained to the target month
AddMonths(d, n) ==
    LET t == d.year * 12 + (d.month - 1) + n
        y == t \div 12
        m == (t % 12) + 1
    IN  [d EXCEPT !.year = y, !.month = m, !.day = Min(d.day, DaysInMonth(y, m))]

\* date.add({ years: n })
AddYears(d, n) ==
    [d EXCEPT !.year = d.year + n,
              !.day = Min(d.day, DaysInMonth(d.year + n, d.month))]

\* date.set({ year })
SetYearOf(d, y) ==
    [d EXCEPT !.year = y, !.day = Min(d.day, DaysInMonth(y, d.month))]

\* date.set({ month })
SetMonthOf(d, m) ==
    [d EXCEPT !.month = m, !.day = Min(d.day, DaysInMonth(d.year, m))]

\* isBefore(dateToCompare, referenceDate): comparison by calendar day
isBefore(a, b) == DayNumber(a) < DayNumber(b)

-----------------------------------------------------------------------------
(* The selection value: DateValue | undefined | DateValue[] *)

Undefined == [kind |-> "undefined", items |-> <<>>]

Single(d) == [kind |-> "date", items |-> <<d>>]

Array(seq) == [kind |-> "array", items |-> seq]

\* Array.isArray(v)
isArray(v) == v.kind = "array"

\* filterNotSameDay with the entries compared as values, not by calendar day
filterNotSameDayByIdentity(seq, date) == SelectSeq(seq, LAMBDA x : x # date)

\* prev.filter((d) => !isSameDay(d, date))
RECURSIVE filterNotSameDay(_, _)
filterNotSameDay(seq, date) ==
    IF seq = <<>> THEN <<>>
    ELSE IF isSameDay(Head(seq), date) THEN filterNotSameDay(Tail(seq), date)
    ELSE <<Head(seq)>> \o filterNotSameDay(Tail(seq), date)

\* prev.findIndex((d) => isSameDay(d, date)), 1-based, 0 for "not found"
findIndexSameDay(seq, date) ==
    IF \E i \in 1..Len(seq) : isSameDay(seq[i], date)
    THEN CHOOSE i \in 1..Len(seq) :
            /\ isSameDay(seq[i], date)
            /\ \A j \in 1..(i - 1) : ~isSameDay(seq[j], date)
    ELSE 0

-----------------------------------------------------------------------------
(* The props the model runs the root with *)

\* the isDateDisabled matcher of the model: weekends are disabled
isDateDisabledProp(d) == DayOfWeek(d) \in {0, 6}

\* the isDateUnavailable matcher of the model: New Year's Day is unavailable
isDateUnavailableProp(d) == d.month = 1 /\ d.day = 1

\* the DateValues the placeholder and the selection range over in the model:
\* around Friday 2025-01-31, with the targets of every key and paging
\* operation from it, and one calendar day at two times of day
ModelDates ==
    { Date(2025, 1, 1, 0),  Date(2025, 1, 27, 0), Date(2025, 1, 31, 0),
      Date(2025, 1, 31, 1), Date(2025, 2, 1, 0),  Date(2025, 2, 2, 0),
      Date(2025, 2, 7, 0),  Date(2025, 2, 8, 0),  Date(2025, 3, 1, 0),
      Date(2026, 1, 31, 0), Date(2026, 2, 1, 0) }

InModel(d) == d \in ModelDates

\* the bounds of the configurations that set minValue and maxValue
LowerBound == Date(2025, 1, 30, 0)

UpperBound == Date(2025, 2, 3, 0)

\* years setYear is called with, months setMonth is called with
ModelYears == {2025, 2026}

ModelMonths == {1, 2, 3}

Keys == { "ArrowUp", "ArrowDown", "ArrowLeft", "ArrowRight", "Home", "End",
          "PageUp", "PageDown", "Enter", " ", "Tab" }

\* values an external consumer replaces the selection with
ExternalValues ==
    { Undefined,
      Single(Date(2025, 2, 7, 0)),
      Single(Date(2025, 2, 1, 0)),
      Array(<<>>),
      Array(<<Date(2025, 2, 7, 0), Date(2025, 1, 27, 0)>>),
      Array(<<Date(2025, 1, 31, 0), Date(2025, 1, 31, 1)>>),
      Array(<<Date(2025, 2, 7, 0), Date(2025, 1, 1, 0)>>) }

\* the configurations of the root the model starts from
PropsSet ==
    { [ type |-> t, readonly |-> rd[1], disabled |-> rd[2],
        preventDeselect |-> pd,
        minValue |-> b[1], maxValue |-> b[2],
        pagedNavigation |-> pn[1], numberOfMonths |-> pn[2],
        weekStartsOn |-> 1, fixedWeeks |-> FALSE,
        disableDaysOutsideMonth |-> FALSE, DEV |-> TRUE ] :
        t \in {"single", "multiple"},
        rd \in {<<FALSE, FALSE>>, <<TRUE, FALSE>>, <<FALSE, TRUE>>},
        pd \in BOOLEAN,
        b \in {<<NoDate, NoDate>>, <<LowerBound, UpperBound>>},
        pn \in {<<FALSE, 1>>} }

\* the configurations of a production build (DEV off)
ProdPropsSet ==
    { [ type |-> t, readonly |-> FALSE, disabled |-> FALSE,
        preventDeselect |-> pd,
        minValue |-> NoDate, maxValue |-> NoDate,
        pagedNavigation |-> FALSE, numberOfMonths |-> 1,
        weekStartsOn |-> 1, fixedWeeks |-> FALSE,
        disableDaysOutsideMonth |-> FALSE, DEV |-> FALSE ] :
        t \in {"single", "multiple"},
        pd \in BOOLEAN }

\* the configurations the paging and cursor properties are checked from: one
\* and two visible months, rolling and paged navigation
NavPropsSet ==
    { [ type |-> "single", readonly |-> FALSE, disabled |-> d,
        preventDeselect |-> FALSE,
        minValue |-> b[1], maxValue |-> b[2],
        pagedNavigation |-> pn, numberOfMonths |-> n,
        weekStartsOn |-> 1, fixedWeeks |-> FALSE,
        disableDaysOutsideMonth |-> FALSE, DEV |-> TRUE ] :
        d \in BOOLEAN,
        b \in {<<NoDate, NoDate>>, <<LowerBound, UpperBound>>},
        pn \in BOOLEAN,
        n \in {1, 2} }

\* the DateValues the placeholder ranges over where the month grids and the
\* cursor keys are examined: the three weeks around the turn from May to June
\* 2024, and the first days of months of 28, 29, 30 and 31 days
GridDates ==
    { AddDays(Date(2024, 5, 27, 0), i) : i \in 0..20 }
        \cup { Date(2024, 2, 1, 0), Date(2025, 2, 1, 0), Date(2026, 2, 1, 0),
               Date(2024, 7, 1, 0) }

\* the bounds of the grid configurations that set minValue and maxValue
GridLowerBound == Date(2024, 5, 29, 0)

GridUpperBound == Date(2024, 6, 12, 0)

\* years and months the grid configurations call setYear and setMonth with
GridYears == {2024, 2025, 2026}

GridMonths == {2, 6}

\* the configurations the month grids and the cursor keys are examined from:
\* every week-start day, with and without fixedWeeks and
\* disableDaysOutsideMonth, one and two visible months
GridPropsSet ==
    { [ type |-> "single", readonly |-> FALSE, disabled |-> db[1],
        preventDeselect |-> FALSE,
        minValue |-> db[2], maxValue |-> db[3],
        pagedNavigation |-> FALSE, numberOfMonths |-> n,
        weekStartsOn |-> ws, fixedWeeks |-> fw,
        disableDaysOutsideMonth |-> ddom, DEV |-> TRUE ] :
        db \in { <<FALSE, NoDate, NoDate>>, <<TRUE, NoDate, NoDate>>,
                 <<FALSE, GridLowerBound, GridUpperBound>> },
        n \in {1, 2},
        ws \in 0..6,
        fw \in BOOLEAN,
        ddom \in BOOLEAN }

-----------------------------------------------------------------------------
(* Derived state and queries of CalendarRootState *)

\* createMonths({ dateObj, numberOfMonths, .. }): numberOfMonths consecutive
\* months from the month of dateObj; Month.value is the first day of a month
createMonths(dateObj, numberOfMonths) ==
    [i \in 1..numberOfMonths |->
        [value |-> AddMonths([dateObj EXCEPT !.day = 1], i - 1)]]

\* monthDates without the week rows that fixedWeeks adds
monthDatesNaturalHeight(monthValue) ==
    LET first   == [monthValue EXCEPT !.day = 1]
        lead    == (DayOfWeek(first) - props.weekStartsOn + 7) % 7
        days    == DaysInMonth(first.year, first.month)
        trail   == (7 - ((lead + days) % 7)) % 7
        natural == lead + days + trail
        total   == natural
        start   == DayNumber(first) - lead
    IN  [i \in 1..total |-> DateOfDayNumber(start + i - 1, first.hour)]

\* monthDates taking every week row to start on Sunday
monthDatesFromSunday(monthValue) ==
    LET first   == [monthValue EXCEPT !.day = 1]
        lead    == DayOfWeek(first)
        days    == DaysInMonth(first.year, first.month)
        trail   == (7 - ((lead + days) % 7)) % 7
        natural == lead + days + trail
        total   == IF props.fixedWeeks /\ natural < 42 THEN 42 ELSE natural
        start   == DayNumber(first) - lead
    IN  [i \in 1..total |-> DateOfDayNumber(start + i - 1, first.hour)]

\* Month.dates of the month whose Month.value is monthValue, as createMonths
\* builds it: the days of the month, led by the days back to the week-start
\* day and trailed by the days that fill the last week row, and with
\* fixedWeeks by further week rows up to six
monthDates(monthValue) ==
    LET first   == [monthValue EXCEPT !.day = 1]
        lead    == (DayOfWeek(first) - props.weekStartsOn + 7) % 7
        days    == DaysInMonth(first.year, first.month)
        trail   == (7 - ((lead + days) % 7)) % 7
        natural == lead + days + trail
        total   == IF props.fixedWeeks /\ natural < 42 THEN 42 ELSE natural
        start   == DayNumber(first) - lead
    IN  [i \in 1..total |-> DateOfDayNumber(start + i - 1, first.hour)]

\* Month.weeks: Month.dates in chunks of seven
monthWeeks(monthValue) ==
    LET dates == monthDates(monthValue)
        rows  == (Len(dates) + 6) \div 7
    IN  [w \in 1..rows |->
            SubSeq(dates, 7 * (w - 1) + 1, Min(7 * w, Len(dates)))]

visibleMonths == [i \in 1..Len(months) |-> months[i].value]

isOutsideVisibleMonths(date) ==
    ~\E i \in 1..Len(visibleMonths) : isSameMonth(date, visibleMonths[i])

\* isDateDisabled rejecting minValue and maxValue themselves as well
isDateDisabledAtBounds(date) ==
    IF isDateDisabledProp(date) \/ props.disabled THEN TRUE
    ELSE IF props.minValue # NoDate /\ ~isBefore(props.minValue, date) THEN TRUE
    ELSE IF props.maxValue # NoDate /\ ~isBefore(date, props.maxValue) THEN TRUE
    ELSE FALSE

isDateDisabled(date) ==
    IF isDateDisabledProp(date) \/ props.disabled THEN TRUE
    ELSE IF props.minValue # NoDate /\ isBefore(date, props.minValue) THEN TRUE
    ELSE IF props.maxValue # NoDate /\ isBefore(props.maxValue, date) THEN TRUE
    ELSE FALSE

isDateSelected(date) ==
    IF isArray(value) THEN \E i \in 1..Len(value.items) : isSameDay(value.items[i], date)
    ELSE IF value.kind = "undefined" THEN FALSE
    ELSE isSameDay(value.items[1], date)

\* getIsNextButtonDisabled looking at maxValue only
isNextButtonDisabledIgnoresRoot ==
    /\ props.maxValue # NoDate
    /\ isBefore(props.maxValue, AddMonths(months[Len(months)].value, 1))

\* getIsNextButtonDisabled: the root is disabled, or the whole month after the
\* last visible month lies after maxValue
isNextButtonDisabled ==
    \/ props.disabled
    \/ /\ props.maxValue # NoDate
       /\ isBefore(props.maxValue, AddMonths(months[Len(months)].value, 1))

\* getIsPrevButtonDisabled: the root is disabled, or the whole month before the
\* first visible month lies before minValue
isPrevButtonDisabled ==
    \/ props.disabled
    \/ /\ props.minValue # NoDate
       /\ isBefore(PrevDay(months[1].value), props.minValue)

\* isInvalid looking at the first entry of a sequence only
isInvalidFirstEntry ==
    IF isArray(value)
    THEN /\ Len(value.items) > 0
         /\ isDateDisabledProp(value.items[1]) \/ isDateUnavailableProp(value.items[1])
    ELSE IF value.kind = "undefined" THEN FALSE
    ELSE isDateDisabledProp(value.items[1]) \/ isDateUnavailableProp(value.items[1])

\* isInvalid
isInvalid ==
    IF isArray(value)
    THEN \E i \in 1..Len(value.items) :
             isDateDisabledProp(value.items[i]) \/ isDateUnavailableProp(value.items[i])
    ELSE IF value.kind = "undefined" THEN FALSE
    ELSE isDateDisabledProp(value.items[1]) \/ isDateUnavailableProp(value.items[1])

\* the dates of the visible months: one day cell is rendered per entry, under
\* the month of its grid
grids == [i \in 1..Len(months) |-> monthDates(months[i].value)]

\* CalendarCellState of the cell of date rendered under month
cellIsDisabled(date) == isDateDisabled(date)

cellIsOutsideMonth(date, month) == ~isSameMonth(date, month)

cellIsFocusedDate(date) == isSameDay(date, placeholder)

\* #tabindex testing for a disabled or outside-month cell before the focused date
tabindexDisabledFirst(date, month) ==
    IF (cellIsOutsideMonth(date, month) /\ props.disableDaysOutsideMonth)
       \/ cellIsDisabled(date)
    THEN "undefined"
    ELSE IF cellIsFocusedDate(date) THEN "0"
    ELSE "-1"

\* CalendarDayState.#tabindex of the cell of date rendered under month;
\* "undefined" is no tabindex attribute
tabindex(date, month) ==
    IF cellIsFocusedDate(date) THEN "0"
    ELSE IF (cellIsOutsideMonth(date, month) /\ props.disableDaysOutsideMonth)
            \/ cellIsDisabled(date)
    THEN "undefined"
    ELSE "-1"

-----------------------------------------------------------------------------
(* Handlers.  A handler yields an effects record: the selection and the    *)
(* placeholder it leaves, the announcements and onDateSelect calls it made, *)
(* whether it suppressed the event's default action, whether it threw.     *)

NoEffect ==
    [ value |-> value, placeholder |-> placeholder, months |-> months,
      announced |-> <<>>, onDateSelectCalls |-> 0, defaultPrevented |-> FALSE,
      threw |-> FALSE ]

\* announcer.announce(message, politeness, duration); the message is its fixed
\* text and the date the formatter renders into it; duration 0 is "not given"
Announcement(text, date, politeness, duration) ==
    [ text |-> text, date |-> date, politeness |-> politeness, duration |-> duration ]

EmptyAnnouncement ==
    Announcement("Selected date is now empty.", NoDate, "polite", 5000)

SelectedAnnouncement(next) ==
    Announcement("Selected Date: ", next, "polite", 0)

\* handleMultipleUpdate without the branch that clears an emptied selection
handleMultipleUpdateKeepsEmpty(prev, date) ==
    IF prev.kind = "undefined"
    THEN [ret |-> Array(<<date>>), placeholder |-> placeholder, threw |-> FALSE]
    ELSE IF ~isArray(prev)
    THEN [ret |-> Undefined, placeholder |-> placeholder, threw |-> props.DEV]
    ELSE LET index == findIndexSameDay(prev.items, date) IN
         IF index = 0
         THEN [ret |-> Array(Append(prev.items, date)),
               placeholder |-> placeholder, threw |-> FALSE]
         ELSE IF props.preventDeselect
         THEN [ret |-> prev, placeholder |-> placeholder, threw |-> FALSE]
         ELSE [ret |-> Array(filterNotSameDay(prev.items, date)),
               placeholder |-> placeholder, threw |-> FALSE]

\* handleMultipleUpdate putting a new date in front: [date, ...prev]
handleMultipleUpdatePrepends(prev, date) ==
    IF prev.kind = "undefined"
    THEN [ret |-> Array(<<date>>), placeholder |-> placeholder, threw |-> FALSE]
    ELSE IF ~isArray(prev)
    THEN [ret |-> Undefined, placeholder |-> placeholder, threw |-> props.DEV]
    ELSE LET index == findIndexSameDay(prev.items, date) IN
         IF index = 0
         THEN [ret |-> Array(<<date>> \o prev.items),
               placeholder |-> placeholder, threw |-> FALSE]
         ELSE IF props.preventDeselect
         THEN [ret |-> prev, placeholder |-> placeholder, threw |-> FALSE]
         ELSE LET next == filterNotSameDay(prev.items, date) IN
              IF Len(next) = 0
              THEN [ret |-> Undefined, placeholder |-> date, threw |-> FALSE]
              ELSE [ret |-> Array(next), placeholder |-> placeholder, threw |-> FALSE]

\* handleMultipleUpdate returning the bare date for the first selection
handleMultipleUpdateBareDate(prev, date) ==
    IF prev.kind = "undefined"
    THEN [ret |-> Single(date), placeholder |-> placeholder, threw |-> FALSE]
    ELSE IF ~isArray(prev)
    THEN [ret |-> Undefined, placeholder |-> placeholder, threw |-> props.DEV]
    ELSE LET index == findIndexSameDay(prev.items, date) IN
         IF index = 0
         THEN [ret |-> Array(Append(prev.items, date)),
               placeholder |-> placeholder, threw |-> FALSE]
         ELSE IF props.preventDeselect
         THEN [ret |-> prev, placeholder |-> placeholder, threw |-> FALSE]
         ELSE LET next == filterNotSameDay(prev.items, date) IN
              IF Len(next) = 0
              THEN [ret |-> Undefined, placeholder |-> date, threw |-> FALSE]
              ELSE [ret |-> Array(next), placeholder |-> placeholder, threw |-> FALSE]

\* #handleMultipleUpdate(prev, date): the returned value (Undefined for a bare
\* return), the placeholder it leaves, and whether it threw
handleMultipleUpdate(prev, date) ==
    IF prev.kind = "undefined"
    THEN [ret |-> Array(<<date>>), placeholder |-> placeholder, threw |-> FALSE]
    ELSE IF ~isArray(prev)
    THEN [ret |-> Undefined, placeholder |-> placeholder, threw |-> props.DEV]
    ELSE LET index == findIndexSameDay(prev.items, date) IN
         IF index = 0
         THEN [ret |-> Array(Append(prev.items, date)),
               placeholder |-> placeholder, threw |-> FALSE]
         ELSE IF props.preventDeselect
         THEN [ret |-> prev, placeholder |-> placeholder, threw |-> FALSE]
         ELSE LET next == filterNotSameDay(prev.items, date) IN
              IF Len(next) = 0
              THEN [ret |-> Undefined, placeholder |-> date, threw |-> FALSE]
              ELSE [ret |-> Array(next), placeholder |-> placeholder, threw |-> FALSE]

\* handleSingleUpdate clearing the selection without moving the placeholder
handleSingleUpdateKeepsPlaceholder(prev, date) ==
    IF isArray(prev) /\ props.DEV
    THEN [ret |-> Undefined, placeholder |-> placeholder, threw |-> TRUE]
    ELSE IF prev.kind = "undefined"
    THEN [ret |-> Single(date), placeholder |-> placeholder, threw |-> FALSE]
    ELSE IF ~props.preventDeselect /\ ~isArray(prev) /\ isSameDay(prev.items[1], date)
    THEN [ret |-> Undefined, placeholder |-> placeholder, threw |-> FALSE]
    ELSE [ret |-> Single(date), placeholder |-> placeholder, threw |-> FALSE]

\* #handleSingleUpdate(prev, date)
handleSingleUpdate(prev, date) ==
    IF isArray(prev) /\ props.DEV
    THEN [ret |-> Undefined, placeholder |-> placeholder, threw |-> TRUE]
    ELSE IF prev.kind = "undefined"
    THEN [ret |-> Single(date), placeholder |-> placeholder, threw |-> FALSE]
    ELSE IF ~props.preventDeselect /\ ~isArray(prev) /\ isSameDay(prev.items[1], date)
    THEN [ret |-> Undefined, placeholder |-> date, threw |-> FALSE]
    ELSE [ret |-> Single(date), placeholder |-> placeholder, threw |-> FALSE]

\* handleCellClick without the isDateUnavailable check
handleCellClickIgnoresUnavailable(date) ==
    IF props.readonly THEN NoEffect
    ELSE IF isDateDisabledProp(date) THEN NoEffect
    ELSE LET prev == value IN
         IF props.type = "multiple"
         THEN IF isArray(prev) \/ prev.kind = "undefined"
              THEN LET r == handleMultipleUpdate(prev, date) IN
                   [NoEffect EXCEPT !.value = r.ret, !.placeholder = r.placeholder,
                                    !.threw = r.threw]
              ELSE NoEffect
         ELSE IF ~isArray(prev)
              THEN LET r == handleSingleUpdate(prev, date) IN
                   IF r.threw THEN [NoEffect EXCEPT !.threw = TRUE]
                   ELSE [ value |-> r.ret,
                          placeholder |-> r.placeholder,
                          announced |->
                              IF r.ret.kind = "undefined" THEN <<EmptyAnnouncement>>
                              ELSE <<SelectedAnnouncement(r.ret.items[1])>>,
                          onDateSelectCalls |-> IF r.ret.kind # "undefined" THEN 1 ELSE 0,
                          defaultPrevented |-> FALSE,
                          months |-> months,
                          threw |-> FALSE ]
              ELSE NoEffect

\* handleCellClick calling onDateSelect also when it cleared the selection
handleCellClickAlwaysNotifies(date) ==
    IF props.readonly THEN NoEffect
    ELSE IF isDateDisabledProp(date) \/ isDateUnavailableProp(date) THEN NoEffect
    ELSE LET prev == value IN
         IF props.type = "multiple"
         THEN IF isArray(prev) \/ prev.kind = "undefined"
              THEN LET r == handleMultipleUpdate(prev, date) IN
                   [NoEffect EXCEPT !.value = r.ret, !.placeholder = r.placeholder,
                                    !.threw = r.threw]
              ELSE NoEffect
         ELSE IF ~isArray(prev)
              THEN LET r == handleSingleUpdate(prev, date) IN
                   IF r.threw THEN [NoEffect EXCEPT !.threw = TRUE]
                   ELSE [ value |-> r.ret,
                          placeholder |-> r.placeholder,
                          announced |->
                              IF r.ret.kind = "undefined" THEN <<EmptyAnnouncement>>
                              ELSE <<SelectedAnnouncement(r.ret.items[1])>>,
                          onDateSelectCalls |-> 1,
                          defaultPrevented |-> FALSE,
                          months |-> months,
                          threw |-> FALSE ]
              ELSE NoEffect

\* handleCellClick announcing nothing when it cleared the selection
handleCellClickSilentClear(date) ==
    IF props.readonly THEN NoEffect
    ELSE IF isDateDisabledProp(date) \/ isDateUnavailableProp(date) THEN NoEffect
    ELSE LET prev == value IN
         IF props.type = "multiple"
         THEN IF isArray(prev) \/ prev.kind = "undefined"
              THEN LET r == handleMultipleUpdate(prev, date) IN
                   [NoEffect EXCEPT !.value = r.ret, !.placeholder = r.placeholder,
                                    !.threw = r.threw]
              ELSE NoEffect
         ELSE IF ~isArray(prev)
              THEN LET r == handleSingleUpdate(prev, date) IN
                   IF r.threw THEN [NoEffect EXCEPT !.threw = TRUE]
                   ELSE [ value |-> r.ret,
                          placeholder |-> r.placeholder,
                          announced |->
                              IF r.ret.kind = "undefined" THEN <<>>
                              ELSE <<SelectedAnnouncement(r.ret.items[1])>>,
                          onDateSelectCalls |-> IF r.ret.kind # "undefined" THEN 1 ELSE 0,
                          defaultPrevented |-> FALSE,
                          months |-> months,
                          threw |-> FALSE ]
              ELSE NoEffect

\* handleCellClick calling the update helpers whatever the stored value's shape
handleCellClickUnguardedShape(date) ==
    IF props.readonly THEN NoEffect
    ELSE IF isDateDisabledProp(date) \/ isDateUnavailableProp(date) THEN NoEffect
    ELSE LET prev == value IN
         IF props.type = "multiple"
         THEN IF TRUE
              THEN LET r == handleMultipleUpdate(prev, date) IN
                   [NoEffect EXCEPT !.value = r.ret, !.placeholder = r.placeholder,
                                    !.threw = r.threw]
              ELSE NoEffect
         ELSE IF TRUE
              THEN LET r == handleSingleUpdate(prev, date) IN
                   IF r.threw THEN [NoEffect EXCEPT !.threw = TRUE]
                   ELSE [ value |-> r.ret,
                          placeholder |-> r.placeholder,
                          announced |->
                              IF r.ret.kind = "undefined" THEN <<EmptyAnnouncement>>
                              ELSE <<SelectedAnnouncement(r.ret.items[1])>>,
                          onDateSelectCalls |-> IF r.ret.kind # "undefined" THEN 1 ELSE 0,
                          defaultPrevented |-> FALSE,
                          months |-> months,
                          threw |-> FALSE ]
              ELSE NoEffect

\* handleCellClick(_, date)
handleCellClick(date) ==
    IF props.readonly THEN NoEffect
    ELSE IF isDateDisabledProp(date) \/ isDateUnavailableProp(date) THEN NoEffect
    ELSE LET prev == value IN
         IF props.type = "multiple"
         THEN IF isArray(prev) \/ prev.kind = "undefined"
              THEN LET r == handleMultipleUpdate(prev, date) IN
                   [NoEffect EXCEPT !.value = r.ret, !.placeholder = r.placeholder,
                                    !.threw = r.threw]
              ELSE NoEffect
         ELSE IF ~isArray(prev)
              THEN LET r == handleSingleUpdate(prev, date) IN
                   IF r.threw THEN [NoEffect EXCEPT !.threw = TRUE]
                   ELSE [ value |-> r.ret,
                          placeholder |-> r.placeholder,
                          announced |->
                              IF r.ret.kind = "undefined" THEN <<EmptyAnnouncement>>
                              ELSE <<SelectedAnnouncement(r.ret.items[1])>>,
                          onDateSelectCalls |-> IF r.ret.kind # "undefined" THEN 1 ELSE 0,
                          defaultPrevented |-> FALSE,
                          months |-> months,
                          threw |-> FALSE ]
              ELSE NoEffect

\* #onclick of the day cell without its isDisabled return
dayOnclickUnguarded(date) == handleCellClick(date)

\* CalendarDayState.#onclick on the day cell of date
dayOnclick(date) ==
    IF isDateDisabled(date) THEN NoEffect ELSE handleCellClick(date)

\* MovePlaceholder with a single selection following the cursor
MovePlaceholderAndSelection(date) ==
    [NoEffect EXCEPT !.placeholder = date,
                     !.value = IF value.kind = "date" THEN Single(date) ELSE value]

\* the effects of moving the placeholder and nothing else
MovePlaceholder(date) == [NoEffect EXCEPT !.placeholder = date]

\* the number of months one page turn moves the visible months by
PageStep == IF props.pagedNavigation THEN props.numberOfMonths ELSE 1

\* the effects of showing the months that start at firstMonth, the placeholder
\* becoming that month: setMonths(createMonths(..)), setPlaceholder(firstMonth)
ShowPage(firstMonth) ==
    [NoEffect EXCEPT !.placeholder = firstMonth,
                     !.months = createMonths(firstMonth, props.numberOfMonths)]

\* nextPage moving the visible months by one month whatever pagedNavigation
nextPageByOneMonth == ShowPage(AddMonths(months[1].value, 1))

\* nextPage moving the placeholder and leaving the months to the synchronisation
nextPageMovesPlaceholderOnly ==
    MovePlaceholder(AddMonths(months[1].value, PageStep))

\* nextPage / prevPage via handleCalendarNextPage / handleCalendarPrevPage: the
\* first visible month moves by numberOfMonths months when pagedNavigation is
\* on and by one month otherwise, and the placeholder becomes that month
nextPage == ShowPage(AddMonths(months[1].value, PageStep))

prevPage == ShowPage(AddMonths(months[1].value, 0 - PageStep))

nextYear == MovePlaceholder(AddYears(placeholder, 1))

prevYear == MovePlaceholder(AddYears(placeholder, 0 - 1))

setYear(year) == MovePlaceholder(SetYearOf(placeholder, year))

setMonth(month) == MovePlaceholder(SetMonthOf(placeholder, month))

\* the Next button's #onclick without its isDisabled return
nextButtonOnclickUnguarded == nextPage

\* the Prev button's #onclick without its isDisabled return
prevButtonOnclickUnguarded == prevPage

\* CalendarNextButtonState.#onclick / CalendarPrevButtonState.#onclick
nextButtonOnclick == IF isNextButtonDisabled THEN NoEffect ELSE nextPage

prevButtonOnclick == IF isPrevButtonDisabled THEN NoEffect ELSE prevPage

\* shiftFocus refusing every target outside the visible months
shiftFocusStaysInView(add) ==
    LET target == AddDays(placeholder, add) IN
    IF isOutsideVisibleMonths(target) THEN NoEffect ELSE MovePlaceholder(target)

\* #shiftFocus(node, add) via shiftCalendarFocus: the cursor moves by add days;
\* a target outside the visible months pages the grid unless paging in that
\* direction is blocked
shiftFocus(add) ==
    LET target == AddDays(placeholder, add) IN
    IF isOutsideVisibleMonths(target)
    THEN IF add < 0
         THEN (IF isPrevButtonDisabled THEN NoEffect ELSE MovePlaceholder(target))
         ELSE (IF isNextButtonDisabled THEN NoEffect ELSE MovePlaceholder(target))
    ELSE MovePlaceholder(target)

\* DaysToWeekStart taking every week row to start on Sunday
DaysToWeekStartFromSunday == DayOfWeek(placeholder)

\* days from the placeholder to the first day of its week row
DaysToWeekStart == (DayOfWeek(placeholder) - props.weekStartsOn + 7) % 7

\* KeyAdd with ArrowUp moving by a day
KeyAddArrowUpByDay(key) ==
    CASE key = "ArrowDown"  -> 7
      [] key = "ArrowUp"    -> 0 - 1
      [] key = "ArrowLeft"  -> 0 - 1
      [] key = "ArrowRight" -> 1
      [] key = "Home"       -> 0 - DaysToWeekStart
      [] key = "End"        -> 6 - DaysToWeekStart
      [] key = "PageUp"     -> DayNumber(AddMonths(placeholder, 0 - 1)) - DayNumber(placeholder)
      [] key = "PageDown"   -> DayNumber(AddMonths(placeholder, 1)) - DayNumber(placeholder)

\* the number of days a cursor key moves the placeholder by
KeyAdd(key) ==
    CASE key = "ArrowDown"  -> 7
      [] key = "ArrowUp"    -> 0 - 7
      [] key = "ArrowLeft"  -> 0 - 1
      [] key = "ArrowRight" -> 1
      [] key = "Home"       -> 0 - DaysToWeekStart
      [] key = "End"        -> 6 - DaysToWeekStart
      [] key = "PageUp"     -> DayNumber(AddMonths(placeholder, 0 - 1)) - DayNumber(placeholder)
      [] key = "PageDown"   -> DayNumber(AddMonths(placeholder, 1)) - DayNumber(placeholder)

CursorKeys == { "ArrowUp", "ArrowDown", "ArrowLeft", "ArrowRight", "Home", "End",
                "PageUp", "PageDown" }

SelectKeys == { "Enter", " " }

\* #onkeydown(event) via handleCalendarKeydown, the event's key being key; the
\* call hands over the event, handleCellClick, #shiftFocus and the placeholder,
\* and neither the readonly nor the disabled flag of the root
onkeydown(key) ==
    IF key \in SelectKeys
    THEN [handleCellClick(placeholder) EXCEPT !.defaultPrevented = TRUE]
    ELSE IF key \in CursorKeys
    THEN [shiftFocus(KeyAdd(key)) EXCEPT !.defaultPrevented = TRUE]
    ELSE NoEffect

\* watchValue taking the first entry of a sequence instead of the last
watchValueFirstEntry(v, p) ==
    IF isArray(v) /\ Len(v.items) > 0 THEN v.items[1]
    ELSE IF ~isArray(v) /\ v.kind # "undefined" THEN v.items[1]
    ELSE p

\* the watch(this.value, ..) callback of the constructor: the placeholder it
\* leaves when the selection has become v and the placeholder is p
watchValue(v, p) ==
    IF isArray(v) /\ Len(v.items) > 0 THEN v.items[Len(v.items)]
    ELSE IF ~isArray(v) /\ v.kind # "undefined" THEN v.items[1]
    ELSE p

-----------------------------------------------------------------------------
(* Toggle groups: the toolbar group and the accordion root *)

\* the value of a single-mode group in which nothing is included
NoItem == ""

\* the values the items of a group carry
ItemValues == {"a", "b", "c"}

\* Array.prototype.includes on a string[]
includes(v, item) == \E i \in 1..Len(v) : v[i] = item

\* Array.prototype.filter((v) => v !== item) on a string[]
filterNot(v, item) == SelectSeq(v, LAMBDA x : x # item)

\* ToolbarGroupSingleState.includesItem / ToolbarGroupMultipleState.includesItem
toolbarIncludesItem(g, item) ==
    IF g.isMulti THEN includes(g.value, item) ELSE g.value = item

\* the single-mode toggle keeping the included item included
toolbarToggleItemNeverClears(g, item) ==
    IF g.isMulti
    THEN IF toolbarIncludesItem(g, item)
         THEN [g EXCEPT !.value = filterNot(g.value, item)]
         ELSE [g EXCEPT !.value = Append(g.value, item)]
    ELSE [g EXCEPT !.value = item]

\* the multiple-mode toggle putting a new item in front
toolbarToggleItemPrepends(g, item) ==
    IF g.isMulti
    THEN IF toolbarIncludesItem(g, item)
         THEN [g EXCEPT !.value = filterNot(g.value, item)]
         ELSE [g EXCEPT !.value = <<item>> \o g.value]
    ELSE IF toolbarIncludesItem(g, item)
         THEN [g EXCEPT !.value = NoItem]
         ELSE [g EXCEPT !.value = item]

\* ToolbarGroupSingleState.toggleItem / ToolbarGroupMultipleState.toggleItem
toolbarToggleItem(g, item) ==
    IF g.isMulti
    THEN IF toolbarIncludesItem(g, item)
         THEN [g EXCEPT !.value = filterNot(g.value, item)]
         ELSE [g EXCEPT !.value = Append(g.value, item)]
    ELSE IF toolbarIncludesItem(g, item)
         THEN [g EXCEPT !.value = NoItem]
         ELSE [g EXCEPT !.value = item]

\* AccordionSingleState.includesItem / AccordionMultiState.includesItem
accordionIncludesItem(r, item) ==
    IF r.isMulti THEN includes(r.value, item) ELSE r.value = item

\* AccordionSingleState.toggleItem / AccordionMultiState.toggleItem; push
\* appends to the array the value box holds
accordionToggleItem(r, item) ==
    IF r.isMulti
    THEN IF accordionIncludesItem(r, item)
         THEN [r EXCEPT !.value = filterNot(r.value, item)]
         ELSE [r EXCEPT !.value = Append(r.value, item)]
    ELSE [r EXCEPT !.value = IF accordionIncludesItem(r, item) THEN NoItem
                             ELSE item]

\* what an event handler did besides changing the widget: the event's
\* preventDefault() called, the key handed to the roving-focus handler, and
\* the item whose element had focus() called on it (NoItem when none had)
Handled(w, prevented, handedOn, focus) ==
    [widget |-> w, defaultPrevented |-> prevented, handedOn |-> handedOn,
     focus |-> focus]

\* ToolbarGroupItemState.#isDisabled
toolbarItemIsDisabled(g, item) == item \in g.itemDisabled \/ g.disabled

\* the item's toggleItem without its #isDisabled return
toolbarItemToggleItemUnguarded(g, item) == toolbarToggleItem(g, item)

\* ToolbarGroupItemState.toggleItem
toolbarItemToggleItem(g, item) ==
    IF toolbarItemIsDisabled(g, item) THEN g ELSE toolbarToggleItem(g, item)

\* ToolbarGroupItemState.#onclick
toolbarItemOnclick(g, item) ==
    Handled(toolbarItemToggleItem(g, item), FALSE, FALSE, NoItem)

\* ToolbarGroupItemState.#onkeydown
toolbarItemOnkeydown(g, item, key) ==
    IF toolbarItemIsDisabled(g, item) THEN Handled(g, FALSE, FALSE, NoItem)
    ELSE IF key \in {"Enter", " "}
         THEN Handled(toolbarItemToggleItem(g, item), TRUE, FALSE, NoItem)
         ELSE Handled(g, FALSE, TRUE, NoItem)

\* the trigger's #isDisabled without the item's own disabled prop
triggerIsDisabledIgnoresItem(r, item) ==
    item \in r.triggerDisabled \/ r.disabled

\* AccordionTriggerState.#isDisabled
triggerIsDisabled(r, item) ==
    item \in r.triggerDisabled \/ item \in r.itemDisabled \/ r.disabled

\* an attribute an element does not carry: dataset gives undefined for it
NoAttribute == "undefined"

\* getDataDisabled: the data-disabled marker, written like the other markers
\* of the sources ("data-accordion-trigger": "", "data-focused": .. ? "" :
\* undefined): the empty string when the condition holds, no attribute
\* otherwise
getDataDisabled(condition) == IF condition THEN "" ELSE NoAttribute

\* the "data-disabled" entry of the trigger's #attrs, as dataset.disabled
\* reads it back
triggerDatasetDisabled(r, item) == getDataDisabled(triggerIsDisabled(r, item))

\* JavaScript's ToBoolean on a string or undefined
ToBoolean(s) == s # NoAttribute /\ s # ""

\* Array.prototype.indexOf, counting from 0, -1 when absent
indexOf(s, x) ==
    IF \E i \in 1..Len(s) : s[i] = x
    THEN (CHOOSE i \in 1..Len(s) : s[i] = x /\ \A j \in 1..(i - 1) : s[j] # x) - 1
    ELSE 0 - 1

\* JavaScript's %, whose result has the sign of the dividend
Rem(a, n) == IF a >= 0 THEN a % n ELSE 0 - ((0 - a) % n)

\* items.filter((item) => !item.dataset.disabled)
candidateItems(r) ==
    SelectSeq(r.triggers, LAMBDA t : ~ToBoolean(triggerDatasetDisabled(r, t)))

\* the keys the trigger's #onkeydown handles
handledKeys == {"ArrowDown", "ArrowUp", "Home", "End", " ", "Enter"}

\* keyToIndex[e.key] for the cursor keys
keyToIndex(key, currentIndex, length) ==
    CASE key = "ArrowDown" -> Rem(currentIndex + 1, length)
      [] key = "ArrowUp"   -> Rem(currentIndex - 1 + length, length)
      [] key = "Home"      -> 0
      [] key = "End"       -> length - 1

\* AccordionTriggerState.#onclick; updateValue() is root.toggleItem(value)
triggerOnclick(r, item) ==
    IF triggerIsDisabled(r, item) THEN Handled(r, FALSE, FALSE, NoItem)
    ELSE Handled(accordionToggleItem(r, item), FALSE, FALSE, NoItem)

\* AccordionTriggerState.#onkeydown, the root and the triggers being mounted
\* under their ids
triggerOnkeydown(r, item, key) ==
    IF triggerIsDisabled(r, item) \/ key \notin handledKeys
    THEN Handled(r, FALSE, FALSE, NoItem)
    ELSE IF key \in {" ", "Enter"}
    THEN Handled(accordionToggleItem(r, item), TRUE, FALSE, NoItem)
    ELSE LET candidates == candidateItems(r)
             index == keyToIndex(key, indexOf(candidates, item), Len(candidates))
         IN  IF Len(r.triggers) = 0 \/ Len(candidates) = 0
             THEN Handled(r, TRUE, FALSE, NoItem)
             ELSE IF index + 1 \in 1..Len(candidates)
             THEN Handled(r, TRUE, FALSE, candidates[index + 1])
             ELSE Handled(r, TRUE, FALSE, NoItem)

-----------------------------------------------------------------------------
(* Typeahead *)

\* most candidates the model gives a typeahead
MaxCandidates == 3

\* longest search buffer, in UTF-16 code units, the model lets build up
MaxSearch == 3

\* A string is the sequence of its UTF-16 code units: two letters in both
\* cases, a space, and the two halves "H" and "L" of a surrogate pair.
Units == {"a", "A", "b", "B", " ", "H", "L"}

\* String.prototype.toLowerCase, unit by unit
toLowerCase(s) ==
    [i \in 1..Len(s) |-> CASE s[i] = "A" -> "a" [] s[i] = "B" -> "b"
                           [] OTHER -> s[i]]

\* String.prototype.startsWith
startsWith(s, prefix) ==
    Len(prefix) <= Len(s) /\ SubSeq(s, 1, Len(prefix)) = prefix

\* String.prototype.trim
RECURSIVE trim(_)
trim(s) ==
    IF s = <<>> THEN s
    ELSE IF s[1] = " " THEN trim(Tail(s))
    ELSE IF s[Len(s)] = " " THEN trim(SubSeq(s, 1, Len(s) - 1))
    ELSE s

\* Array.from(string): the string's code points, a surrogate pair being one
RECURSIVE ArrayFrom(_)
ArrayFrom(s) ==
    IF s = <<>> THEN <<>>
    ELSE IF Len(s) >= 2 /\ s[1] = "H" /\ s[2] = "L"
         THEN <<SubSeq(s, 1, 2)>> \o ArrayFrom(SubSeq(s, 3, Len(s)))
         ELSE <<SubSeq(s, 1, 1)>> \o ArrayFrom(Tail(s))

\* the undefined a search without a match returns
NoMatch == <<"undefined">>

\* Array.prototype.find over strings: the first entry that satisfies Test
find(s, Test(_)) ==
    IF \E i \in 1..Len(s) : Test(s[i])
    THEN s[CHOOSE i \in 1..Len(s) :
               Test(s[i]) /\ \A j \in 1..(i - 1) : ~Test(s[j])]
    ELSE NoMatch

\* wrapArray
wrapArray(array, startIndex) ==
    [index \in 1..Len(array) |->
        array[((startIndex + index - 1) % Len(array)) + 1]]

\* the test of getNextMatch for a repeated character
isRepeated(search) ==
    /\ Len(search) > 1
    /\ \A i \in 1..Len(ArrayFrom(search)) :
           ArrayFrom(search)[i] = SubSeq(search, 1, 1)

\* getNextMatch's normalizedSearch
normalizedSearch(search) ==
    IF isRepeated(search) THEN SubSeq(search, 1, 1) ELSE search

\* getNextMatch leaving a repeated character as typed
getNextMatchAsTyped(values, search, currentMatch) ==
    LET currentMatchIndex ==
            IF currentMatch # <<>> THEN indexOf(values, currentMatch) ELSE 0 - 1
        wrapped == wrapArray(values,
                             IF currentMatchIndex > 0 THEN currentMatchIndex ELSE 0)
        wrappedValues ==
            IF Len(search) = 1
            THEN SelectSeq(wrapped, LAMBDA v : v # currentMatch) ELSE wrapped
        nextMatch ==
            find(wrappedValues,
                 LAMBDA v : startsWith(toLowerCase(v), toLowerCase(search)))
    IN  IF nextMatch # currentMatch THEN nextMatch ELSE NoMatch

\* getNextMatch looking at the values from the start of the list
getNextMatchFromStart(values, search, currentMatch) ==
    LET wrappedValues ==
            IF Len(normalizedSearch(search)) = 1
            THEN SelectSeq(values, LAMBDA v : v # currentMatch) ELSE values
        nextMatch ==
            find(wrappedValues,
                 LAMBDA v : startsWith(toLowerCase(v),
                                       toLowerCase(normalizedSearch(search))))
    IN  IF nextMatch # currentMatch THEN nextMatch ELSE NoMatch

\* getNextMatch keeping the current match among the values whatever the search
getNextMatchKeepsCurrent(values, search, currentMatch) ==
    LET currentMatchIndex ==
            IF currentMatch # <<>> THEN indexOf(values, currentMatch) ELSE 0 - 1
        wrappedValues ==
            wrapArray(values,
                      IF currentMatchIndex > 0 THEN currentMatchIndex ELSE 0)
        nextMatch ==
            find(wrappedValues,
                 LAMBDA v : startsWith(toLowerCase(v),
                                       toLowerCase(normalizedSearch(search))))
    IN  IF nextMatch # currentMatch THEN nextMatch ELSE NoMatch

\* getNextMatch, the current match being a string ("" when there is none)
getNextMatch(values, search, currentMatch) ==
    LET currentMatchIndex ==
            IF currentMatch # <<>> THEN indexOf(values, currentMatch) ELSE 0 - 1
        wrapped == wrapArray(values,
                             IF currentMatchIndex > 0 THEN currentMatchIndex ELSE 0)
        normalized == toLowerCase(normalizedSearch(search))
        excludeCurrentMatch == Len(normalized) = 1
        wrappedValues ==
            IF excludeCurrentMatch
            THEN SelectSeq(wrapped, LAMBDA v : v # currentMatch) ELSE wrapped
        nextMatch ==
            find(wrappedValues,
                 LAMBDA v : startsWith(toLowerCase(v), normalized))
    IN  IF nextMatch # currentMatch THEN nextMatch ELSE NoMatch

\* the values handleTypeaheadSearch reads off the candidates
textsOf(candidates) == [i \in 1..Len(candidates) |-> trim(candidates[i])]

\* useTypeahead's handleTypeaheadSearch with the default onMatch (focus the
\* new item) and getCurrentItem (the focused element): the typeahead it
\* leaves and the item it returns, as its place among the candidates, 0 for
\* undefined
handleTypeaheadSearch(t, key) ==
    IF Len(t.candidates) = 0 THEN [typeahead |-> t, newItem |-> 0]
    ELSE LET values == textsOf(t.candidates)
             search == t.search \o key
             currentMatch == IF t.current \in 1..Len(values)
                             THEN values[t.current] ELSE <<>>
             nextMatch == getNextMatch(values, search, currentMatch)
             newItem == indexOf(values, nextMatch) + 1
         IN  [typeahead |-> [t EXCEPT !.search = search,
                                      !.current = IF newItem > 0 THEN newItem
                                                  ELSE @],
              newItem |-> newItem]

\* resetTypeahead, also what the buffer's timer does a second after a key
resetTypeahead(t) == [t EXCEPT !.search = <<>>]

-----------------------------------------------------------------------------
(* The widgets as constructed *)

\* a single-mode toolbar group, enabled, with nothing pressed
ToolbarAsConstructed ==
    [isMulti |-> FALSE, disabled |-> FALSE, itemDisabled |-> {},
     value |-> NoItem]

\* a single-mode accordion of three items in document order, enabled, with
\* nothing open
AccordionAsConstructed ==
    [isMulti |-> FALSE, disabled |-> FALSE, itemDisabled |-> {},
     triggerDisabled |-> {}, triggers |-> <<"a", "b", "c">>, value |-> NoItem]

\* useTypeahead(): an empty search buffer; no candidate handed over yet and
\* the focus outside the candidates
TypeaheadAsConstructed ==
    [candidates |-> <<>>, current |-> 0, search |-> <<>>]

\* the record of an event: the widget and the handler it went to, the item,
\* the key (typed: the key a typeahead was handed, as a string of the model),
\* what the handler did besides changing the widget, the item
\* handleTypeaheadSearch returned, and whether every toggleItem call so far
\* went to both the toolbar group and the accordion root
Event(w, op, item, key, typed, h, newItem, inStep) ==
    [widget |-> w, op |-> op, item |-> item, key |-> key, typed |-> typed,
     defaultPrevented |-> h.defaultPrevented, handedOn |-> h.handedOn,
     focus |-> h.focus, newItem |-> newItem, inStep |-> inStep]

Quiet == Handled("", FALSE, FALSE, NoItem)

NoEvent == Event("", "init", NoItem, "", <<>>, Quiet, 0, TRUE)

WidgetsAsConstructed ==
    /\ toolbar = ToolbarAsConstructed
    /\ accordion = AccordionAsConstructed
    /\ typeahead = TypeaheadAsConstructed
    /\ event = NoEvent

-----------------------------------------------------------------------------
(* Transitions *)

Op(name, date, key) == [op |-> name, date |-> date, key |-> key]

\* the synchronisation leaving the months shown as they are
syncMonthsKeepsView(ms, p) == ms

\* useMonthViewPlaceholderSync: the months shown once the placeholder has
\* become p while ms are shown; a placeholder outside ms rebuilds the view
syncMonths(ms, p) ==
    IF \E i \in 1..Len(ms) : isSameMonth(p, ms[i].value) THEN ms
    ELSE createMonths(p, props.numberOfMonths)

\* One transition: the handler's effects, then the watch(value) callback when
\* the selection changed, then the month view synchronised with a changed
\* placeholder.  The guards keep the state inside the bounds of the model.
ApplyWithin(e, dates) ==
    LET p == IF e.value # value THEN watchValue(e.value, e.placeholder)
             ELSE e.placeholder
    IN  /\ p \in dates
        /\ Len(e.value.items) <= MaxSel
        /\ value' = e.value
        /\ placeholder' = p
        /\ months' = IF p # placeholder THEN syncMonths(e.months, p) ELSE e.months
        /\ announced' = e.announced
        /\ onDateSelectCalls' = e.onDateSelectCalls
        /\ defaultPrevented' = e.defaultPrevented
        /\ threw' = e.threw
        /\ UNCHANGED props
        /\ UNCHANGED widgetVars

Apply(e) == ApplyWithin(e, ModelDates)

\* the calendar the constructor leaves, the props being one of configs and
\* the placeholder prop being p
ConstructedAt(configs, p) ==
    /\ props \in configs
    /\ value = Undefined
    /\ placeholder = p
    /\ months = createMonths(placeholder, props.numberOfMonths)
    /\ announced = <<>>
    /\ onDateSelectCalls = 0
    /\ defaultPrevented = FALSE
    /\ threw = FALSE
    /\ last = Op("init", NoDate, "")

\* the calendar constructed, next to widgets left as constructed
StartAt(configs, p) == ConstructedAt(configs, p) /\ WidgetsAsConstructed

StartFrom(configs) == StartAt(configs, Date(2025, 1, 31, 0))

Init == StartFrom(PropsSet)

InitProd == StartFrom(ProdPropsSet)

InitNav == StartFrom(NavPropsSet)

\* root.handleCellClick(event, d) called directly
HandleCellClick ==
    \E d \in ModelDates :
        /\ Apply(handleCellClick(d))
        /\ last' = Op("handleCellClick", d, "")

\* a pointer activation of the day cell of d, rendered under a visible month
DayClick ==
    \E d \in ModelDates :
        /\ ~isOutsideVisibleMonths(d)
        /\ Apply(dayOnclick(d))
        /\ last' = Op("dayClick", d, "")

\* a key press on the grid
Keydown ==
    \E k \in Keys :
        /\ Apply(onkeydown(k))
        /\ last' = Op("keydown", NoDate, k)

\* root.nextPage() / root.prevPage() called directly; the operation is
\* recorded with the first visible month it started from
NextPage ==
    /\ Apply(nextPage)
    /\ last' = Op("nextPage", months[1].value, "")

PrevPage ==
    /\ Apply(prevPage)
    /\ last' = Op("prevPage", months[1].value, "")

NextYear ==
    /\ Apply(nextYear)
    /\ last' = Op("nextYear", NoDate, "")

PrevYear ==
    /\ Apply(prevYear)
    /\ last' = Op("prevYear", NoDate, "")

SetYear ==
    \E y \in ModelYears :
        /\ Apply(setYear(y))
        /\ last' = Op("setYear", NoDate, "")

SetMonth ==
    \E m \in ModelMonths :
        /\ Apply(setMonth(m))
        /\ last' = Op("setMonth", NoDate, "")

NextButtonClick ==
    /\ Apply(nextButtonOnclick)
    /\ last' = Op("nextButton", NoDate, "")

PrevButtonClick ==
    /\ Apply(prevButtonOnclick)
    /\ last' = Op("prevButton", NoDate, "")

\* an external consumer replaces the selection wholesale
SetValue ==
    \E v \in ExternalValues :
        /\ Apply([NoEffect EXCEPT !.value = v])
        /\ last' = Op("setValue", NoDate, "")

Next ==
    \/ HandleCellClick
    \/ DayClick
    \/ Keydown
    \/ NextPage
    \/ PrevPage
    \/ NextYear
    \/ PrevYear
    \/ SetYear
    \/ SetMonth
    \/ NextButtonClick
    \/ PrevButtonClick
    \/ SetValue

Spec == Init /\ [][Next]_vars

\* a production build
SpecProd == InitProd /\ [][Next]_vars

\* the operations that move the placeholder and the visible months, and the
\* key presses
NextNav ==
    \/ Keydown
    \/ NextPage
    \/ PrevPage
    \/ NextYear
    \/ PrevYear
    \/ SetYear
    \/ SetMonth
    \/ NextButtonClick
    \/ PrevButtonClick

SpecNav == InitNav /\ [][NextNav]_vars

\* the grid configurations, started on Monday 2024-06-03
InitGrid == StartAt(GridPropsSet, Date(2024, 6, 3, 0))

\* a press of a cursor key or of a key the grid does not handle
GridKeydown ==
    \E k \in CursorKeys \cup {"Tab"} :
        /\ ApplyWithin(onkeydown(k), GridDates)
        /\ last' = Op("keydown", NoDate, k)

GridSetYear ==
    \E y \in GridYears :
        /\ ApplyWithin(setYear(y), GridDates)
        /\ last' = Op("setYear", NoDate, "")

GridSetMonth ==
    \E m \in GridMonths :
        /\ ApplyWithin(setMonth(m), GridDates)
        /\ last' = Op("setMonth", NoDate, "")

GridNextButtonClick ==
    /\ ApplyWithin(nextButtonOnclick, GridDates)
    /\ last' = Op("nextButton", NoDate, "")

GridPrevButtonClick ==
    /\ ApplyWithin(prevButtonOnclick, GridDates)
    /\ last' = Op("prevButton", NoDate, "")

NextGrid ==
    \/ GridKeydown
    \/ GridSetYear
    \/ GridSetMonth
    \/ GridNextButtonClick
    \/ GridPrevButtonClick

SpecGrid == InitGrid /\ [][NextGrid]_vars

-----------------------------------------------------------------------------
(* Transitions of the toggle groups *)

\* the calendar a toolbar, an accordion or a typeahead stands next to
CalendarAsConstructed ==
    ConstructedAt({ [ type |-> "single", readonly |-> FALSE,
                      disabled |-> FALSE, preventDeselect |-> FALSE,
                      minValue |-> NoDate, maxValue |-> NoDate,
                      pagedNavigation |-> FALSE, numberOfMonths |-> 1,
                      weekStartsOn |-> 1, fixedWeeks |-> FALSE,
                      disableDaysOutsideMonth |-> FALSE, DEV |-> TRUE ] },
                  Date(2025, 1, 31, 0))

\* the mode and the value a group and a root start with, free of duplicates
ToggleStarts ==
    { <<FALSE, NoItem>>, <<FALSE, "b">>, <<TRUE, <<>>>>, <<TRUE, <<"b", "a">>>> }

\* the disabled props of the toolbar group and of its items
ToolbarDisabledSet == { <<FALSE, {}>>, <<FALSE, {"b"}>>, <<TRUE, {}>> }

\* the disabled props of the accordion root, of its items and of the triggers
AccordionDisabledSet ==
    { <<FALSE, {}, {}>>, <<FALSE, {"b"}, {}>>, <<FALSE, {"a"}, {"c"}>>,
      <<TRUE, {}, {}>> }

\* the keys pressed on a toolbar item and on an accordion trigger
ToolbarKeys == {"Enter", " ", "ArrowRight", "Tab"}

AccordionKeys == handledKeys \cup {"Tab", "a"}

\* a toolbar group and an accordion root constructed in the same mode with
\* the same value
InitToggle ==
    /\ CalendarAsConstructed
    /\ typeahead = TypeaheadAsConstructed
    /\ \E s \in ToggleStarts, td \in ToolbarDisabledSet,
          ad \in AccordionDisabledSet :
           /\ toolbar = [isMulti |-> s[1], disabled |-> td[1],
                         itemDisabled |-> td[2], value |-> s[2]]
           /\ accordion = [isMulti |-> s[1], disabled |-> ad[1],
                           itemDisabled |-> ad[2], triggerDisabled |-> ad[3],
                           triggers |-> <<"a", "b", "c">>, value |-> s[2]]
    /\ event = NoEvent

\* group.toggleItem(item) called on the toolbar group
ToolbarToggleItem ==
    \E item \in ItemValues :
        /\ toolbar' = toolbarToggleItem(toolbar, item)
        /\ event' = Event("toolbar", "toggleItem", item, "", <<>>, Quiet, 0, FALSE)
        /\ UNCHANGED <<accordion, typeahead>>
        /\ UNCHANGED calendarVars

\* root.toggleItem(item) called on the accordion root
AccordionToggleItem ==
    \E item \in ItemValues :
        /\ accordion' = accordionToggleItem(accordion, item)
        /\ event' = Event("accordion", "toggleItem", item, "", <<>>, Quiet, 0, FALSE)
        /\ UNCHANGED <<toolbar, typeahead>>
        /\ UNCHANGED calendarVars

\* the same toggleItem(item) call made on the toolbar group and on the
\* accordion root
ToggleBoth ==
    \E item \in ItemValues :
        /\ toolbar' = toolbarToggleItem(toolbar, item)
        /\ accordion' = accordionToggleItem(accordion, item)
        /\ event' = Event("both", "toggleItem", item, "", <<>>, Quiet, 0,
                          event.inStep)
        /\ UNCHANGED typeahead
        /\ UNCHANGED calendarVars

\* a click on a toolbar group item
ToolbarItemClick ==
    \E item \in ItemValues :
        LET h == toolbarItemOnclick(toolbar, item)
        IN  /\ toolbar' = h.widget
            /\ event' = Event("toolbar", "click", item, "", <<>>, h, 0, FALSE)
            /\ UNCHANGED <<accordion, typeahead>>
            /\ UNCHANGED calendarVars

\* a key press on a toolbar group item
ToolbarItemKeydown ==
    \E item \in ItemValues, key \in ToolbarKeys :
        LET h == toolbarItemOnkeydown(toolbar, item, key)
        IN  /\ toolbar' = h.widget
            /\ event' = Event("toolbar", "keydown", item, key, <<>>, h, 0, FALSE)
            /\ UNCHANGED <<accordion, typeahead>>
            /\ UNCHANGED calendarVars

\* a click on an accordion trigger
TriggerClick ==
    \E item \in ItemValues :
        LET h == triggerOnclick(accordion, item)
        IN  /\ accordion' = h.widget
            /\ event' = Event("accordion", "click", item, "", <<>>, h, 0, FALSE)
            /\ UNCHANGED <<toolbar, typeahead>>
            /\ UNCHANGED calendarVars

\* a key press on an accordion trigger
TriggerKeydown ==
    \E item \in ItemValues, key \in AccordionKeys :
        LET h == triggerOnkeydown(accordion, item, key)
        IN  /\ accordion' = h.widget
            /\ event' = Event("accordion", "keydown", item, key, <<>>, h, 0, FALSE)
            /\ UNCHANGED <<toolbar, typeahead>>
            /\ UNCHANGED calendarVars

NextToggle ==
    \/ ToolbarToggleItem
    \/ AccordionToggleItem
    \/ ToggleBoth
    \/ ToolbarItemClick
    \/ ToolbarItemKeydown
    \/ TriggerClick
    \/ TriggerKeydown

SpecToggle == InitToggle /\ [][NextToggle]_vars

-----------------------------------------------------------------------------
(* Transitions of the typeahead *)

\* the text contents of the candidates of the model: three texts that begin
\* with the same letter, two of them with the same two letters in different
\* cases and one with white space around it, a text that begins with another
\* letter, a text that begins with a surrogate pair, and an empty text
Texts ==
    { <<"a", "b">>, <<"A", "b", "a">>, <<" ", "A", "a", " ">>, <<"B", "a">>,
      <<"H", "L", "a">>, <<>> }

\* the keys handed to the typeahead: three of one code unit and one of two
TypedKeys == { <<"a">>, <<"A">>, <<"b">>, <<"H", "L">> }

\* the sequences of at most n texts
RECURSIVE TextLists(_)
TextLists(n) ==
    IF n = 0 THEN { <<>> }
    ELSE TextLists(n - 1) \cup
         { Append(l, t) : l \in { k \in TextLists(n - 1) : Len(k) = n - 1 },
                          t \in Texts }

\* a typeahead with an empty buffer, handed some candidates, the focus on one
\* of them or elsewhere
InitTypeahead ==
    /\ CalendarAsConstructed
    /\ toolbar = ToolbarAsConstructed
    /\ accordion = AccordionAsConstructed
    /\ \E l \in TextLists(MaxCandidates) : \E c \in 0..Len(l) :
           typeahead = [candidates |-> l, current |-> c, search |-> <<>>]
    /\ event = NoEvent

\* handleTypeaheadSearch(key, candidates)
HandleTypeaheadSearch ==
    \E key \in TypedKeys :
        LET r == handleTypeaheadSearch(typeahead, key)
        IN  /\ Len(typeahead.search) + Len(key) <= MaxSearch
            /\ typeahead' = r.typeahead
            /\ event' = Event("typeahead", "search", NoItem, "", key, Quiet,
                              r.newItem, FALSE)
            /\ UNCHANGED <<toolbar, accordion>>
            /\ UNCHANGED calendarVars

\* resetTypeahead(), or the buffer's timer running out
ResetTypeahead ==
    /\ typeahead' = resetTypeahead(typeahead)
    /\ event' = Event("typeahead", "reset", NoItem, "", <<>>, Quiet, 0, FALSE)
    /\ UNCHANGED <<toolbar, accordion>>
    /\ UNCHANGED calendarVars

NextTypeahead ==
    \/ HandleTypeaheadSearch
    \/ ResetTypeahead

SpecTypeahead == InitTypeahead /\ [][NextTypeahead]_vars

-----------------------------------------------------------------------------
(* Vocabulary of the properties *)

\* the date passes the isDateDisabled and isDateUnavailable matchers
Accepted(d) == ~isDateDisabledProp(d) /\ ~isDateUnavailableProp(d)

\* the date is disabled by a bound: before minValue or after maxValue
DisabledByBound(d) ==
    \/ props.minValue # NoDate /\ isBefore(d, props.minValue)
    \/ props.maxValue # NoDate /\ isBefore(props.maxValue, d)

\* no two entries of the sequence fall on the same calendar day
NoSameDayPair(seq) ==
    \A i, j \in 1..Len(seq) : i # j => ~isSameDay(seq[i], seq[j])

\* the value's shape matches the configured mode
ShapeMatchesMode(v) ==
    IF props.type = "multiple" THEN v.kind \in {"undefined", "array"}
    ELSE v.kind \in {"undefined", "date"}

\* the entries of the sequence that are not on the day of d, in their order
OtherDays(seq, d) == SelectSeq(seq, LAMBDA x : ~isSameDay(x, d))

\* the step is a direct handleCellClick call
IsCellClick == last'.op = "handleCellClick"

NavigationOps == {"nextPage", "prevPage", "nextYear", "prevYear", "setYear", "setMonth"}

-----------------------------------------------------------------------------
(* C1..C10: selection mutation *)

\* C1: in single mode with readonly and preventDeselect off, a handleCellClick
\* on an accepted date d from the empty selection leaves selection = d, and a
\* handleCellClick(d) on the selection d it left clears the selection to
\* undefined and puts the placeholder on d.
C1_SingleToggle ==
    [][ ( /\ IsCellClick
          /\ props.type = "single" /\ ~props.readonly /\ ~props.preventDeselect
          /\ Accepted(last'.date) )
        => /\ value = Undefined => value' = Single(last'.date)
           /\ value = Single(last'.date)
                => value' = Undefined /\ placeholder' = last'.date ]_vars

\* a second click on the selected date has just cleared the selection
C1_Witness ==
    /\ last.op = "handleCellClick"
    /\ props.type = "single" /\ ~props.readonly /\ ~props.preventDeselect
    /\ Accepted(last.date)
    /\ value = Undefined
    /\ placeholder = last.date
    /\ announced = <<EmptyAnnouncement>>

\* C2: in multiple mode a click never introduces two same-day entries into a
\* selection that had none, and a click that changes the selection never
\* leaves an empty sequence: removing the only entry leaves undefined.
C2_NoSameDayDuplicates ==
    [][ ( /\ last'.op \in {"handleCellClick", "dayClick", "keydown"}
          /\ props.type = "multiple" )
        => /\ NoSameDayPair(value.items) => NoSameDayPair(value'.items)
           /\ value' # value => value' # Array(<<>>) ]_vars

\* an effective click in multiple mode has removed the only remaining entry
C2_Witness ==
    /\ last.op = "handleCellClick"
    /\ props.type = "multiple" /\ ~props.readonly
    /\ Accepted(last.date)
    /\ value = Undefined
    /\ placeholder = last.date

\* C3: handleCellClick(d) changes nothing when readonly is set or d is
\* rejected by the isDateDisabled or the isDateUnavailable matcher: selection,
\* placeholder and months unchanged, no announcement, no onDateSelect call.
C3_GuardedClickIsNoop ==
    [][ ( /\ IsCellClick
          /\ \/ props.readonly
             \/ isDateDisabledProp(last'.date)
             \/ isDateUnavailableProp(last'.date) )
        => /\ UNCHANGED <<value, placeholder, months>>
           /\ announced' = <<>>
           /\ onDateSelectCalls' = 0 ]_vars

\* a click on an unavailable date has acted on a non-empty selection
C3_Witness ==
    /\ last.op = "handleCellClick"
    /\ ~props.readonly
    /\ isDateUnavailableProp(last.date)
    /\ value # Undefined
    /\ announced = <<>> /\ onDateSelectCalls = 0

\* C4: handleCellClick(d) on a date disabled by a bound (before minValue or
\* after maxValue) leaves the selection unchanged.
C4_BoundDisabledClickIsNoop ==
    [][ (IsCellClick /\ DisabledByBound(last'.date)) => value' = value ]_vars

\* C5: whenever the selection changes to a non-empty value, the placeholder
\* afterwards is the selected date (a bare date) or the last entry (a
\* sequence).
C5_PlaceholderFollowsSelection ==
    [][ value' # value
        => /\ value'.kind = "date" => placeholder' = value'.items[1]
           /\ (isArray(value') /\ Len(value'.items) > 0)
                => placeholder' = value'.items[Len(value'.items)] ]_vars

\* a click has appended a date to a multiple selection, behind a later date
C5_Witness ==
    /\ last.op = "handleCellClick"
    /\ props.type = "multiple" /\ ~props.preventDeselect
    /\ isArray(value) /\ Len(value.items) = 2
    /\ value.items[2] = last.date
    /\ isBefore(value.items[2], value.items[1])
    /\ placeholder = last.date

\* C6: nextPage, prevPage, nextYear, prevYear, setYear, setMonth and every
\* cursor-moving key leave the selection unchanged.
C6_NavigationKeepsSelection ==
    [][ ( \/ last'.op \in NavigationOps
          \/ last'.op = "keydown" /\ last'.key \in CursorKeys )
        => value' = value ]_vars

\* a cursor key has moved the placeholder away from the selected date
C6_Witness ==
    /\ last.op = "keydown" /\ last.key = "ArrowDown"
    /\ defaultPrevented
    /\ value.kind = "date"
    /\ ~isSameDay(placeholder, value.items[1])

\* the fields of an effects record that C7 compares
SelectionEffects(e) ==
    <<e.value, e.placeholder, e.announced, e.onDateSelectCalls>>

\* C7: in every state, Enter and Space on the grid have the same effect on
\* selection, placeholder, announcements and onDateSelect as a pointer
\* activation of the day cell of the placeholder.
C7_SelectKeyEqualsDayClick ==
    \A k \in SelectKeys :
        SelectionEffects(onkeydown(k)) = SelectionEffects(dayOnclick(placeholder))

C10_OnDateSelectOncePerCommit ==
    [][ (IsCellClick /\ props.type = "single")
        => LET d == last'.date
               noop == props.readonly \/ ~Accepted(d) \/ isArray(value)
               clears == /\ ~noop
                         /\ value.kind = "date"
                         /\ isSameDay(value.items[1], d)
                         /\ ~props.preventDeselect
           IN  IF noop THEN onDateSelectCalls' = 0 /\ value' = value
               ELSE IF clears THEN onDateSelectCalls' = 0 /\ value' = Undefined
               ELSE onDateSelectCalls' = 1 /\ value' = Single(d) ]_vars

\* under preventDeselect a click has committed a date and called onDateSelect
C10_Witness ==
    /\ last.op = "handleCellClick"
    /\ props.type = "single" /\ props.preventDeselect
    /\ value = Single(last.date)
    /\ onDateSelectCalls = 1
    /\ announced = <<SelectedAnnouncement(last.date)>>

-----------------------------------------------------------------------------
(* C11..C14: announcements, the shape of the value, shape errors *)

\* the announcement that reports the selection v: the empty-selection message
\* for no date, the "Selected Date: <date>" message for a date
AnnouncementOf(v) ==
    IF v.kind = "undefined" THEN EmptyAnnouncement
    ELSE SelectedAnnouncement(v.items[1])

\* C11 as stated: every handleCellClick that changes the selection sends
\* exactly one announcement, the empty-selection message (polite, 5000 ms)
\* when it clears and the "Selected Date" message (polite) when it commits,
\* and a click that leaves the selection alone sends none.
C11_ChangingClickAnnouncesOnce ==
    [][ IsCellClick
        => IF value' # value
           THEN announced' =
                    << IF value'.kind = "undefined" THEN EmptyAnnouncement
                       ELSE SelectedAnnouncement(last'.date) >>
           ELSE announced' = <<>> ]_vars

\* C11 amended: in single mode a handleCellClick that passes the readonly,
\* matcher and shape guards sends exactly one announcement reporting the
\* selection it leaves: the empty-selection message, polite with a duration of
\* 5000 ms, when it cleared, and the "Selected Date" message of the clicked
\* date, polite, when it committed (also when it committed the selected date
\* again); a click the guards stop, and every click in multiple mode, sends
\* none.
C11_SingleClickAnnouncesOutcome ==
    [][ IsCellClick
        => LET d == last'.date
               acts == /\ props.type = "single"
                       /\ ~props.readonly /\ Accepted(d) /\ ~isArray(value)
           IN  IF acts
               THEN /\ announced' = <<AnnouncementOf(value')>>
                    /\ value' \in {Undefined, Single(d)}
                    /\ announced'[1].politeness = "polite"
                    /\ value' = Undefined => announced'[1].duration = 5000
               ELSE announced' = <<>> ]_vars

\* a click has cleared a single selection and announced the empty selection
C11_Witness ==
    /\ last.op = "handleCellClick"
    /\ props.type = "single" /\ ~props.preventDeselect
    /\ value = Undefined
    /\ announced = <<EmptyAnnouncement>>
    /\ onDateSelectCalls = 0

\* C12: a step other than an external replacement of the value keeps a value
\* whose shape matches the mode in that shape (single: undefined or one date;
\* multiple: undefined or a sequence), and no step changes the mode.
C12_ShapeMatchesModePreserved ==
    [][ /\ props'.type = props.type
        /\ (last'.op # "setValue" /\ ShapeMatchesMode(value))
               => ShapeMatchesMode(value') ]_vars

\* in multiple mode the Enter key has grown a sequence to two dates
C12_Witness ==
    /\ last.op = "keydown" /\ last.key = "Enter"
    /\ props.type = "multiple"
    /\ ShapeMatchesMode(value)
    /\ isArray(value) /\ Len(value.items) = 2
    /\ value.items[2] = placeholder

\* C13 as stated: in a development build a handleCellClick of a date the
\* guards accept throws when the stored value's shape does not match the mode.
C13_DevClickThrowsOnMismatch ==
    [][ ( /\ IsCellClick
          /\ props.DEV /\ ~props.readonly
          /\ Accepted(last'.date) /\ ~DisabledByBound(last'.date)
          /\ ~ShapeMatchesMode(value) )
        => threw' ]_vars

\* C14: in a production build a handleCellClick on a stored value whose shape
\* does not match the mode changes neither the value nor the placeholder nor
\* the visible months, announces nothing, does not call onDateSelect and does
\* not throw.
C14_ProdMismatchIsSilentNoop ==
    [][ (IsCellClick /\ ~props.DEV /\ ~ShapeMatchesMode(value))
        => /\ UNCHANGED <<value, placeholder, months>>
           /\ announced' = <<>>
           /\ onDateSelectCalls' = 0
           /\ ~threw' ]_vars

\* a production build has clicked an accepted date over a sequence stored in
\* single mode
C14_Witness ==
    /\ last.op = "handleCellClick"
    /\ ~props.DEV /\ ~props.readonly
    /\ props.type = "single" /\ isArray(value) /\ Len(value.items) = 2
    /\ Accepted(last.date)
    /\ ~isDateSelected(last.date)
    /\ announced = <<>> /\ onDateSelectCalls = 0

-----------------------------------------------------------------------------
(* C15..C20: paging, the page buttons, the bounds, cursor moves *)

\* the first day of the first visible month
FirstVisibleMonth == months[1].value

\* the month grid built from the placeholder p
GridFrom(p) == createMonths(p, props.numberOfMonths)

\* C15: with pagedNavigation on, a prevPage() right after a nextPage() and a
\* nextPage() right after a prevPage() leave the first visible month where it
\* was before the first of the two calls.
C15_PagedRoundTrip ==
    [][ ( /\ props.pagedNavigation
          /\ \/ last.op = "nextPage" /\ last'.op = "prevPage"
             \/ last.op = "prevPage" /\ last'.op = "nextPage" )
        => months'[1].value = last.date ]_vars

\* with two months shown and paged navigation, nextPage() from January and
\* February 2025 and then prevPage() have brought January back
C15_Witness ==
    /\ last.op = "prevPage"
    /\ last.date = Date(2025, 3, 1, 0)
    /\ props.pagedNavigation /\ props.numberOfMonths = 2
    /\ FirstVisibleMonth = Date(2025, 1, 1, 0)
    /\ placeholder = Date(2025, 1, 1, 0)

\* C16: nextPage() moves the first visible month forward, and prevPage()
\* backward, by numberOfMonths months when pagedNavigation is on and by one
\* month when it is off, and the months shown afterwards are the month grid
\* built from the new placeholder.
C16_PageMovesByStep ==
    [][ last'.op \in {"nextPage", "prevPage"}
        => LET step == IF props.pagedNavigation THEN props.numberOfMonths ELSE 1
               by == IF last'.op = "nextPage" THEN step ELSE 0 - step
           IN  /\ months'[1].value = AddMonths(months[1].value, by)
               /\ months' = GridFrom(placeholder')
               /\ Len(months') = props.numberOfMonths ]_vars

\* with two months shown and rolling navigation, nextPage() has moved the
\* window from January-February to February-March 2025
C16_Witness ==
    /\ last.op = "nextPage"
    /\ last.date = Date(2025, 1, 1, 0)
    /\ ~props.pagedNavigation /\ props.numberOfMonths = 2
    /\ FirstVisibleMonth = Date(2025, 2, 1, 0)
    /\ months[2].value = Date(2025, 3, 1, 0)

\* the last day of the last visible month
LastVisibleDay == PrevDay(AddMonths(months[Len(months)].value, 1))

\* the visible months lie neither wholly after maxValue nor wholly before
\* minValue
WindowInBounds ==
    /\ ~(props.maxValue # NoDate /\ isBefore(props.maxValue, FirstVisibleMonth))
    /\ ~(props.minValue # NoDate /\ isBefore(LastVisibleDay, props.minValue))

\* the transition is a press of a cursor key
IsCursorKey == last'.op = "keydown" /\ last'.key \in CursorKeys

\* C17: an activation of the Next or Prev button and a press of a cursor key
\* throw nothing, and from visible months that show a date within
\* [minValue, maxValue] they lead to visible months that show one.
C17_BoundsNotPassed ==
    [][ (last'.op \in {"nextButton", "prevButton"} \/ IsCursorKey)
        => /\ ~threw'
           /\ WindowInBounds => WindowInBounds' ]_vars

\* PageDown on 7 February 2025, its target past maxValue in a month that may
\* not be paged to: the key was handled and nothing moved
C17_Witness ==
    /\ last.op = "keydown" /\ last.key = "PageDown"
    /\ props.maxValue = UpperBound /\ ~props.disabled
    /\ placeholder = Date(2025, 2, 7, 0)
    /\ isNextButtonDisabled
    /\ isOutsideVisibleMonths(AddMonths(placeholder, 1))
    /\ WindowInBounds
    /\ defaultPrevented /\ ~threw

\* C18: an activation of the Next button while isNextButtonDisabled holds, and
\* of the Prev button while isPrevButtonDisabled holds, leaves the placeholder,
\* the visible months and the selection as they are; otherwise it leaves what
\* nextPage(), respectively prevPage(), leaves.
C18_ButtonPagesUnlessDisabled ==
    [][ /\ last'.op = "nextButton"
           => IF isNextButtonDisabled
              THEN UNCHANGED <<value, placeholder, months>>
              ELSE /\ value' = value
                   /\ placeholder' = nextPage.placeholder
                   /\ months' = nextPage.months
                   /\ months'[1].value = AddMonths(months[1].value, PageStep)
        /\ last'.op = "prevButton"
           => IF isPrevButtonDisabled
              THEN UNCHANGED <<value, placeholder, months>>
              ELSE /\ value' = value
                   /\ placeholder' = prevPage.placeholder
                   /\ months' = prevPage.months
                   /\ months'[1].value = AddMonths(months[1].value, 0 - PageStep) ]_vars

\* the Prev button has paged from February to January 2025, past which
\* minValue blocks it
C18_Witness ==
    /\ last.op = "prevButton"
    /\ props.minValue = LowerBound /\ ~props.disabled
    /\ props.numberOfMonths = 1
    /\ FirstVisibleMonth = Date(2025, 1, 1, 0)
    /\ placeholder = Date(2025, 1, 1, 0)
    /\ isPrevButtonDisabled /\ ~isNextButtonDisabled

\* the dates of the month of the date m
DatesOfMonth(m) ==
    { Date(m.year, m.month, day, 0) : day \in 1..DaysInMonth(m.year, m.month) }

\* C19: isNextButtonDisabled holds exactly when the root is disabled or
\* maxValue is set and every date of the month after the last visible month is
\* after it; isPrevButtonDisabled holds exactly when the root is disabled or
\* minValue is set and every date of the month before the first visible month
\* is before it; with no bounds and the root enabled neither holds.
C19_ButtonDisabledExactly ==
    /\ isNextButtonDisabled <=>
           \/ props.disabled
           \/ /\ props.maxValue # NoDate
              /\ \A d \in DatesOfMonth(AddMonths(months[Len(months)].value, 1)) :
                     isBefore(props.maxValue, d)
    /\ isPrevButtonDisabled <=>
           \/ props.disabled
           \/ /\ props.minValue # NoDate
              /\ \A d \in DatesOfMonth(AddMonths(FirstVisibleMonth, 0 - 1)) :
                     isBefore(d, props.minValue)
    /\ (props.minValue = NoDate /\ props.maxValue = NoDate /\ ~props.disabled)
           => ~isNextButtonDisabled /\ ~isPrevButtonDisabled

\* January and February 2025 are shown under a maxValue in February: the Next
\* button is disabled on an enabled root and the Prev button is too, the last
\* day of December lying before minValue
C19_Witness ==
    /\ ~props.disabled
    /\ props.maxValue = UpperBound
    /\ props.numberOfMonths = 2
    /\ FirstVisibleMonth = Date(2025, 1, 1, 0)
    /\ isNextButtonDisabled /\ isPrevButtonDisabled
    /\ last.op = "nextButton"

\* C20: a press of a cursor key whose target date lies outside the visible
\* months, paging towards it not being blocked, leaves the placeholder on the
\* target and visible months that contain the target's month.
C20_CursorPagesToTarget ==
    [][ IsCursorKey
        => LET add == KeyAdd(last'.key)
               target == AddDays(placeholder, add)
               blocked == IF add < 0 THEN isPrevButtonDisabled
                          ELSE isNextButtonDisabled
           IN  (isOutsideVisibleMonths(target) /\ ~blocked)
               => /\ placeholder' = target
                  /\ \E i \in 1..Len(months') : isSameMonth(target, months'[i].value) ]_vars

\* ArrowRight on 31 January 2025 with one month shown has paged to February
C20_Witness ==
    /\ last.op = "keydown" /\ last.key = "ArrowRight"
    /\ props.numberOfMonths = 1
    /\ placeholder = Date(2025, 2, 1, 0)
    /\ FirstVisibleMonth = Date(2025, 2, 1, 0)
    /\ defaultPrevented

-----------------------------------------------------------------------------
(* C21..C23: the keys *)

ArrowKeys == {"ArrowLeft", "ArrowRight", "ArrowUp", "ArrowDown"}

\* the days the claim has an arrow key move the placeholder by
ArrowDays(key) ==
    CASE key = "ArrowLeft"  -> 0 - 1
      [] key = "ArrowRight" -> 1
      [] key = "ArrowUp"    -> 0 - 7
      [] key = "ArrowDown"  -> 7

\* a cursor move to target is blocked: the target lies outside the visible
\* months and the page button of its direction is disabled
MoveBlocked(target) ==
    /\ isOutsideVisibleMonths(target)
    /\ IF isBefore(target, placeholder) THEN isPrevButtonDisabled
       ELSE isNextButtonDisabled

WeekRowStart(p) ==
    CHOOSE t \in { AddDays(p, 0 - i) : i \in 0..6 } :
        DayOfWeek(t) = props.weekStartsOn

WeekRowEnd(p) == AddDays(WeekRowStart(p), 6)

-----------------------------------------------------------------------------
(* C24..C25: the tab sequence of the day cells *)

\* the cells with tab index 0, as <<index of the month, index of the date>>
TabStops ==
    LET g == grids IN
    { c \in UNION { {<<i, j>> : j \in 1..Len(g[i])} : i \in 1..Len(g) } :
        tabindex(g[c[1]][c[2]], months[c[1]].value) = "0" }

\* C24 as stated: in every state exactly one of the day cells rendered for
\* the visible months, padding cells included, has tab index 0.
C24_ExactlyOneTabStop == Cardinality(TabStops) = 1

\* C25 as stated: in every state a cell that is disabled, or outside its
\* month under disableDaysOutsideMonth, has no tab index; the cell of the
\* placeholder has tab index 0; every other cell has tab index -1.
C25_RemovedFocusedOthers ==
    LET g == grids IN
    \A i \in 1..Len(g) : \A j \in 1..Len(g[i]) :
        LET date    == g[i][j]
            month   == months[i].value
            removed == \/ isDateDisabled(date)
                       \/ ~isSameMonth(date, month) /\ props.disableDaysOutsideMonth
            focused == isSameDay(date, placeholder)
            t       == tabindex(date, month)
        IN  /\ removed => t = "undefined"
            /\ focused => t = "0"
            /\ (~removed /\ ~focused) => t = "-1"

\* C25 amended: in every state a cell whose date is the placeholder has tab
\* index 0, also when it is disabled or outside its month; any other cell that
\* is disabled (by predicate, bounds or the root's disabled flag), or outside
\* its month under disableDaysOutsideMonth, has no tab index; every remaining
\* cell has tab index -1.
C25_FocusedThenRemovedThenOthers ==
    LET g == grids IN
    \A i \in 1..Len(g) : \A j \in 1..Len(g[i]) :
        LET date    == g[i][j]
            month   == months[i].value
            removed == \/ isDateDisabled(date)
                       \/ ~isSameMonth(date, month) /\ props.disableDaysOutsideMonth
            focused == isSameDay(date, placeholder)
            t       == tabindex(date, month)
        IN  /\ focused => t = "0"
            /\ (~focused /\ removed) => t = "undefined"
            /\ (~focused /\ ~removed) => t = "-1"

\* the placeholder is on a Saturday the predicate disables, under
\* disableDaysOutsideMonth on an enabled root: its cell has tab index 0, and
\* the cell of the Sunday after it has none
C25_Witness ==
    /\ last.op = "keydown"
    /\ ~props.disabled /\ props.disableDaysOutsideMonth
    /\ placeholder = Date(2024, 6, 8, 0)
    /\ isDateDisabled(placeholder)
    /\ tabindex(placeholder, months[1].value) = "0"
    /\ tabindex(NextDay(placeholder), months[1].value) = "undefined"
    /\ tabindex(PrevDay(placeholder), months[1].value) = "-1"

-----------------------------------------------------------------------------
(* C26..C28: day activation, isDateDisabled, isInvalid *)

\* C26: an activation of the day cell of a date that the disabled predicate,
\* the root's disabled flag or a bound disables changes neither selection nor
\* placeholder nor months, announces nothing and calls nothing; of any other
\* date it leaves what handleCellClick of that date leaves.
C26_DayClickDelegatesUnlessDisabled ==
    [][ last'.op = "dayClick"
        => LET d == last'.date
               e == handleCellClick(d)
               disabledCell == \/ isDateDisabledProp(d)
                               \/ props.disabled
                               \/ DisabledByBound(d)
           IN  IF disabledCell
               THEN /\ UNCHANGED <<value, placeholder, months>>
                    /\ announced' = <<>>
                    /\ onDateSelectCalls' = 0
               ELSE /\ value' = e.value
                    /\ placeholder' = IF e.value # value
                                      THEN watchValue(e.value, e.placeholder)
                                      ELSE e.placeholder
                    /\ announced' = e.announced
                    /\ onDateSelectCalls' = e.onDateSelectCalls
                    /\ threw' = e.threw ]_vars

\* the day cell of Monday 2025-01-27, before minValue, has been activated on
\* an enabled root and nothing was selected
C26_Witness ==
    /\ last.op = "dayClick"
    /\ last.date = Date(2025, 1, 27, 0)
    /\ props.minValue = LowerBound /\ ~props.disabled /\ ~props.readonly
    /\ Accepted(last.date)
    /\ value = Undefined
    /\ announced = <<>> /\ onDateSelectCalls = 0

\* the dates isDateDisabled is examined on: the dates of the model, the bounds
\* and the days next to the bounds
ProbeDates ==
    ModelDates \cup { LowerBound, UpperBound, PrevDay(LowerBound), NextDay(UpperBound) }

\* C27: isDateDisabled(date) holds exactly when the disabled predicate rejects
\* the date, the root is disabled, the date is a day before minValue or a day
\* after maxValue; minValue and maxValue themselves are not disabled by the
\* bounds.
C27_IsDateDisabledExactly ==
    /\ \A d \in ProbeDates :
           isDateDisabled(d) <=>
               \/ isDateDisabledProp(d)
               \/ props.disabled
               \/ props.minValue # NoDate /\ DayNumber(d) < DayNumber(props.minValue)
               \/ props.maxValue # NoDate /\ DayNumber(d) > DayNumber(props.maxValue)
    /\ \A b \in {props.minValue, props.maxValue} \ {NoDate} :
           isDateDisabled(b) <=> (isDateDisabledProp(b) \/ props.disabled)

\* an enabled root with both bounds: the bounds are enabled, the days next to
\* them outside the range are disabled
C27_Witness ==
    /\ ~props.disabled
    /\ props.minValue = LowerBound /\ props.maxValue = UpperBound
    /\ ~isDateDisabled(LowerBound) /\ isDateDisabled(PrevDay(LowerBound))
    /\ ~isDateDisabled(UpperBound) /\ isDateDisabled(NextDay(UpperBound))
    /\ ~isDateDisabledProp(PrevDay(LowerBound))
    /\ ~isDateDisabledProp(NextDay(UpperBound))
    /\ last.op = "setMonth"

\* the dates held in the selection
HeldDates == { value.items[i] : i \in 1..Len(value.items) }

\* C28: isInvalid holds exactly when a date held in the selection is rejected
\* by the disabled predicate or by the unavailable predicate; it does not hold
\* for an empty selection, in single and in multiple mode.
C28_IsInvalidExactly ==
    /\ isInvalid <=> \E d \in HeldDates : ~Accepted(d)
    /\ HeldDates = {} => ~isInvalid

\* a sequence whose second entry is the unavailable New Year's Day has been
\* put into a multiple-mode root from outside
C28_Witness ==
    /\ last.op = "setValue"
    /\ props.type = "multiple"
    /\ isArray(value) /\ Len(value.items) = 2
    /\ Accepted(value.items[1]) /\ isDateUnavailableProp(value.items[2])
    /\ isInvalid

-----------------------------------------------------------------------------
(* C29..C30: the month grids *)

\* C29: with fixedWeeks on, the dates of every visible month are exactly 42,
\* in six week rows.
C29_FixedWeeksGives42 ==
    props.fixedWeeks
        => \A i \in 1..Len(months) :
               /\ Len(monthDates(months[i].value)) = 42
               /\ Len(monthWeeks(months[i].value)) = 6

\* with weeks starting on Sunday and fixedWeeks on, February 2026, whose 28
\* days fill exactly four week rows, is shown with 42 dates
C29_Witness ==
    /\ props.fixedWeeks /\ props.weekStartsOn = 0
    /\ months[1].value = Date(2026, 2, 1, 0)
    /\ DayOfWeek(months[1].value) = 0
    /\ Len(monthDates(months[1].value)) = 42
    /\ monthDates(months[1].value)[42] = Date(2026, 3, 14, 0)

\* C30: in every state the dates of each visible month begin on the
\* week-start day, are consecutive days, end on the day before a week-start
\* day, hold the first day of the month in their first week row and the last
\* day of the month, and fall into week rows of exactly seven entries; the
\* visible months are numberOfMonths consecutive months.
C30_GridStructure ==
    /\ Len(months) = props.numberOfMonths
    /\ \A i \in 1..(Len(months) - 1) :
           months[i + 1].value = AddMonths(months[i].value, 1)
    /\ \A i \in 1..Len(months) :
           LET m     == months[i].value
               dates == monthDates(m)
               weeks == monthWeeks(m)
           IN  /\ m.day = 1
               /\ DayOfWeek(dates[1]) = props.weekStartsOn
               /\ DayOfWeek(NextDay(dates[Len(dates)])) = props.weekStartsOn
               /\ \A j \in 1..(Len(dates) - 1) : dates[j + 1] = NextDay(dates[j])
               /\ \E j \in 1..7 : dates[j] = m
               /\ \E j \in 1..Len(dates) : dates[j] = PrevDay(AddMonths(m, 1))
               /\ \A w \in 1..Len(weeks) : Len(weeks[w]) = 7
               /\ \A w \in 1..Len(weeks) : \A k \in 1..7 :
                      weeks[w][k] = dates[7 * (w - 1) + k]
               /\ Len(weeks) * 7 = Len(dates)

\* with weeks starting on Wednesday the Next button has brought July and
\* August 2024: July's dates run from Wednesday 26 June to Tuesday 6 August
C30_Witness ==
    /\ last.op = "nextButton"
    /\ props.weekStartsOn = 3 /\ props.numberOfMonths = 2 /\ ~props.fixedWeeks
    /\ months[1].value = Date(2024, 7, 1, 0)
    /\ months[2].value = Date(2024, 8, 1, 0)
    /\ monthDates(months[1].value)[1] = Date(2024, 6, 26, 0)
    /\ Len(monthDates(months[1].value)) = 42

-----------------------------------------------------------------------------
(* C31: the placeholder's month is visible *)

\* C31: after every completed transition (click, key press, nextPage,
\* prevPage, nextYear, prevYear, setYear, setMonth, external replacement of
\* the value) the month of the placeholder is one of the visible months:
\* isOutsideVisibleMonths(placeholder) is false in every state.
C31_PlaceholderIsVisible == ~isOutsideVisibleMonths(placeholder)

\* a key press has taken the placeholder from January into February 2025,
\* and February is the month shown
C31_Witness ==
    /\ last.op = "keydown"
    /\ last.key \in CursorKeys
    /\ isSameMonth(placeholder, Date(2025, 2, 1, 0))
    /\ months[1].value = Date(2025, 2, 1, 0)

-----------------------------------------------------------------------------
(* C32..C36: toggle groups *)

\* the items a toolbar group / an accordion root includes
ToolbarIncluded(g) == {x \in ItemValues : toolbarIncludesItem(g, x)}

AccordionIncluded(r) == {x \in ItemValues : accordionIncludesItem(r, x)}

\* the step is a toggleItem call on the toolbar group / the accordion root
IsToolbarToggle == event'.op = "toggleItem" /\ event'.widget \in {"toolbar", "both"}

IsAccordionToggle ==
    event'.op = "toggleItem" /\ event'.widget \in {"accordion", "both"}

\* C32: single-mode toggle groups (toolbar group and accordion root): after
\* any sequence of toggleItem calls at most one item is included; toggleItem
\* on the included item sets the value to the empty string (nothing is
\* included) and toggleItem on any other item makes that item the only
\* included one.
C32_SingleToggle ==
    [][ /\ (~toolbar.isMulti /\ IsToolbarToggle) =>
               /\ Cardinality(ToolbarIncluded(toolbar')) <= 1
               /\ IF event'.item \in ToolbarIncluded(toolbar)
                  THEN toolbar'.value = "" /\ ToolbarIncluded(toolbar') = {}
                  ELSE ToolbarIncluded(toolbar') = {event'.item}
        /\ (~accordion.isMulti /\ IsAccordionToggle) =>
               /\ Cardinality(AccordionIncluded(accordion')) <= 1
               /\ IF event'.item \in AccordionIncluded(accordion)
                  THEN accordion'.value = "" /\ AccordionIncluded(accordion') = {}
                  ELSE AccordionIncluded(accordion') = {event'.item}
      ]_vars

\* toggleItem("b") has cleared a single-mode group and root that included "b"
C32_Witness ==
    /\ event.op = "toggleItem" /\ event.widget = "both" /\ event.item = "b"
    /\ ~toolbar.isMulti /\ toolbar.value = ""
    /\ ~accordion.isMulti /\ accordion.value = ""

\* the sequence has no entry twice
NoDuplicate(v) == \A i, j \in 1..Len(v) : v[i] = v[j] => i = j

\* the entries of the sequence
Entries(v) == {v[i] : i \in 1..Len(v)}

\* C33: multiple-mode toggle groups (toolbar group and accordion root):
\* toggleItem(x) flips only the membership of x, leaving every other entry
\* and the relative order of the entries unchanged; starting from a
\* duplicate-free value the value never contains a duplicate, and
\* toggleItem(x) applied twice restores the original set of included items;
\* the accordion and the toolbar implementations yield the same value after
\* the same sequence of toggles.
C33_MultipleToggle ==
    /\ [](toolbar.isMulti =>
            /\ NoDuplicate(toolbar.value)
            /\ \A x \in ItemValues :
                   Entries(toolbarToggleItem(toolbarToggleItem(toolbar, x), x).value)
                       = Entries(toolbar.value))
    /\ [](accordion.isMulti =>
            /\ NoDuplicate(accordion.value)
            /\ \A x \in ItemValues :
                   Entries(accordionToggleItem(accordionToggleItem(accordion, x), x).value)
                       = Entries(accordion.value))
    /\ []((toolbar.isMulti /\ accordion.isMulti /\ event.inStep) =>
            toolbar.value = accordion.value)
    /\ [][ /\ (toolbar.isMulti /\ IsToolbarToggle) =>
                  /\ (event'.item \in Entries(toolbar'.value))
                         = (event'.item \notin Entries(toolbar.value))
                  /\ filterNot(toolbar'.value, event'.item)
                         = filterNot(toolbar.value, event'.item)
           /\ (accordion.isMulti /\ IsAccordionToggle) =>
                  /\ (event'.item \in Entries(accordion'.value))
                         = (event'.item \notin Entries(accordion.value))
                  /\ filterNot(accordion'.value, event'.item)
                         = filterNot(accordion.value, event'.item)
         ]_vars

\* the same toggles made on both: "b" has been taken out of "b", "a", "c",
\* leaving "a", "c" in both
C33_Witness ==
    /\ event.op = "toggleItem" /\ event.widget = "both" /\ event.inStep
    /\ event.item = "b"
    /\ toolbar.isMulti /\ toolbar.value = <<"a", "c">>
    /\ accordion.isMulti /\ accordion.value = <<"a", "c">>

\* the step is the given event on a toolbar item / an accordion trigger
IsToolbarEvent == event'.widget = "toolbar" /\ event'.op \in {"click", "keydown"}

IsTriggerEvent == event'.widget = "accordion" /\ event'.op \in {"click", "keydown"}

\* C34: a toolbar group item that is disabled, or whose group is disabled,
\* never changes the group's value: click, Enter and Space on it leave the
\* value unchanged and do not suppress the default action; on an enabled
\* item Enter and Space suppress the default action and toggle the item
\* exactly once, and every other key is handed to the roving-focus handler
\* without changing the value.
C34_ToolbarItemEvents ==
    [][ IsToolbarEvent =>
          LET item == event'.item
              off  == item \in toolbar.itemDisabled \/ toolbar.disabled
          IN  /\ off => /\ toolbar'.value = toolbar.value
                        /\ ~event'.defaultPrevented
              /\ (~off /\ event'.op = "keydown" /\ event'.key \in {"Enter", " "}) =>
                     /\ event'.defaultPrevented
                     /\ ~event'.handedOn
                     /\ toolbar'.value = toolbarToggleItem(toolbar, item).value
                     /\ (item \in ToolbarIncluded(toolbar'))
                            = (item \notin ToolbarIncluded(toolbar))
              /\ (~off /\ event'.op = "keydown" /\ event'.key \notin {"Enter", " "}) =>
                     /\ event'.handedOn
                     /\ toolbar'.value = toolbar.value
      ]_vars

\* Space on the enabled item "c" of a multiple-mode group has added "c" and
\* suppressed the default action
C34_Witness ==
    /\ event.widget = "toolbar" /\ event.op = "keydown" /\ event.key = " "
    /\ event.item = "c" /\ event.defaultPrevented
    /\ toolbar.itemDisabled = {"b"} /\ ~toolbar.disabled
    /\ toolbar.isMulti /\ toolbar.value = <<"b", "a", "c">>

\* C35: an accordion trigger is disabled if the trigger itself, the item it
\* belongs to, or the root is disabled; a disabled trigger never toggles its
\* item and never suppresses a key's default action, for click and for every
\* key.
C35_DisabledTrigger ==
    [][ IsTriggerEvent =>
          LET item == event'.item
              off  == \/ item \in accordion.triggerDisabled
                      \/ item \in accordion.itemDisabled
                      \/ accordion.disabled
          IN  off => /\ accordion'.value = accordion.value
                     /\ ~event'.defaultPrevented
                     /\ event'.focus = NoItem
      ]_vars

\* Enter on the trigger of the disabled item "b", the trigger's own disabled
\* prop being off: "b" stays closed and the default action is not suppressed
C35_Witness ==
    /\ event.widget = "accordion" /\ event.op = "keydown" /\ event.key = "Enter"
    /\ event.item = "b" /\ ~event.defaultPrevented
    /\ accordion.itemDisabled = {"b"} /\ accordion.triggerDisabled = {}
    /\ ~accordion.disabled
    /\ accordion.isMulti /\ accordion.value = <<"a">>

\* the enabled triggers in document order
EnabledTriggers ==
    SelectSeq(accordion.triggers,
              LAMBDA t : ~(\/ t \in accordion.triggerDisabled
                           \/ t \in accordion.itemDisabled
                           \/ accordion.disabled))

\* C36: accordion keyboard navigation over the enabled triggers in document
\* order: ArrowDown focuses the next enabled trigger and wraps from the last
\* to the first, ArrowUp focuses the previous one and wraps from the first to
\* the last, Home focuses the first and End the last; a disabled trigger is
\* never focused, and these keys never change which items are open.
C36_ArrowsOverEnabledTriggers ==
    [][ ( /\ IsTriggerEvent /\ event'.op = "keydown"
          /\ event'.key \in {"ArrowDown", "ArrowUp", "Home", "End"}
          /\ \E i \in 1..Len(EnabledTriggers) : EnabledTriggers[i] = event'.item ) =>
          LET n == Len(EnabledTriggers)
              i == CHOOSE k \in 1..n : EnabledTriggers[k] = event'.item
          IN  /\ event'.focus =
                     CASE event'.key = "ArrowDown" -> EnabledTriggers[(i % n) + 1]
                       [] event'.key = "ArrowUp" ->
                              EnabledTriggers[((i + n - 2) % n) + 1]
                       [] event'.key = "Home" -> EnabledTriggers[1]
                       [] event'.key = "End" -> EnabledTriggers[n]
              /\ accordion'.value = accordion.value
      ]_vars

-----------------------------------------------------------------------------
(* C37..C39: typeahead *)

\* the string of n code units c
Repeat(c, n) == [i \in 1..n |-> c]

\* the values the typeahead reads off its candidates
TypeaheadValues == textsOf(typeahead.candidates)

\* a text none of the candidates carries
ForeignText == <<"b", "b">>

\* the current matches a search is examined with: the text of a candidate,
\* the empty string that stands for no current match, and, where noted, a
\* text none of the values equals
CurrentMatches == Entries(TypeaheadValues) \cup {<<>>}

\* the value begins with the search, letter case apart
StartsWithFolded(v, s) ==
    /\ Len(s) <= Len(v)
    /\ \A i \in 1..Len(s) : toLowerCase(<<v[i]>>) = toLowerCase(<<s[i]>>)

\* the place of the current match among the values, 0 when there is none
PlaceOf(values, cur) ==
    IF cur # <<>> /\ cur \in Entries(values)
    THEN CHOOSE i \in 1..Len(values) :
             values[i] = cur /\ \A j \in 1..(i - 1) : values[j] # cur
    ELSE 0

\* the places of the values in cyclic order, after place p (p left out) and
\* from place p on; from the start of the list when p is 0
PlacesAfter(values, p) ==
    IF p = 0 THEN [k \in 1..Len(values) |-> k]
    ELSE [k \in 1..(Len(values) - 1) |-> ((p + k - 1) % Len(values)) + 1]

PlacesFrom(values, p) ==
    IF p = 0 THEN [k \in 1..Len(values) |-> k]
    ELSE [k \in 1..Len(values) |-> ((p + k - 2) % Len(values)) + 1]

\* the first value, in the order of the places, that satisfies Ok
FirstOf(values, places, Ok(_)) ==
    IF \E k \in 1..Len(places) : Ok(values[places[k]])
    THEN values[places[CHOOSE k \in 1..Len(places) :
                           /\ Ok(values[places[k]])
                           /\ \A j \in 1..(k - 1) : ~Ok(values[places[j]])]]
    ELSE NoMatch

\* the search is two or more code units that are not all the same
DistinctCharacters(s) == Len(s) >= 2 /\ \E i, j \in 1..Len(s) : s[i] # s[j]

\* the searches of at most MaxSearch code units that a sequence of keys
\* builds up to
RECURSIVE SearchesOf(_)
SearchesOf(n) ==
    IF n = 0 THEN { <<>> }
    ELSE SearchesOf(n - 1) \cup
         { s \o k : s \in SearchesOf(n - 1), k \in TypedKeys }

Searches == { s \in SearchesOf(MaxSearch) : Len(s) \in 1..MaxSearch }

\* the search buffer is empty and the focus is outside the candidates; the
\* states in which they are carry, between them, every list of candidates of
\* the model, so what holds of getNextMatch for the values of each of them
\* holds for every list of values
NoSearchUnderWay == typeahead.search = <<>> /\ typeahead.current = 0

IsSearchStep ==
    /\ event'.widget = "typeahead" /\ event'.op = "search"
    /\ Len(typeahead.candidates) > 0

\* the current match handleTypeaheadSearch reads off the focused candidate
CurrentMatchNow ==
    IF typeahead.current \in 1..Len(TypeaheadValues)
    THEN TypeaheadValues[typeahead.current] ELSE <<>>

\* the next match a one-character search is to give: the first value after
\* the current match, in cyclic order, that is another value and begins with
\* the character
NextOther(values, c, cur) ==
    FirstOf(values, PlacesAfter(values, PlaceOf(values, cur)),
            LAMBDA v : v # cur /\ StartsWithFolded(v, <<c>>))

\* C38: typeahead with a one-character (normalized) search never returns the
\* current match: getNextMatch returns the first value after the current
\* match in cyclic order (wrapping around the end of the list) that starts
\* with the search, compared case-insensitively, or undefined when no other
\* value matches, so repeated presses of one character cycle through all
\* values starting with it.
C38_OneCharacterCycles ==
    /\ [](NoSearchUnderWay =>
            \A cur \in CurrentMatches \cup {ForeignText} :
                \A s \in Searches :
                    Len(normalizedSearch(s)) = 1 =>
                        /\ getNextMatch(TypeaheadValues, s, cur) # cur
                        /\ getNextMatch(TypeaheadValues, s, cur)
                               = NextOther(TypeaheadValues, s[1], cur))
    /\ [][ ( /\ IsSearchStep
             /\ Len(typeahead'.search) >= 1
             /\ \A i \in 1..Len(typeahead'.search) :
                    typeahead'.search[i] = typeahead'.search[1] ) =>
             LET next == NextOther(TypeaheadValues, typeahead'.search[1],
                                   CurrentMatchNow)
             IN  IF next = NoMatch
                 THEN event'.newItem = 0 /\ typeahead'.current = typeahead.current
                 ELSE /\ event'.newItem \in 1..Len(TypeaheadValues)
                      /\ TypeaheadValues[event'.newItem] = next
                      /\ typeahead'.current = event'.newItem
         ]_vars

\* "a" pressed three times over "ab", "Ba", "Aa": whichever candidate had the
\* focus, the presses went round the two values that begin with "a" and
\* wrapped from "Aa" back to "ab"
C38_Witness ==
    /\ typeahead.candidates
           = << <<"a", "b">>, <<"B", "a">>, <<" ", "A", "a", " ">> >>
    /\ typeahead.search = <<"a", "a", "a">>
    /\ event.op = "search" /\ event.typed = <<"a">>
    /\ event.newItem = 1 /\ typeahead.current = 1

\* the next match a search of several distinct characters is to give when
\* the current match does not begin with it: the first value from the
\* current match on, in cyclic order, that begins with the search
NextFrom(values, s, cur) ==
    FirstOf(values, PlacesFrom(values, PlaceOf(values, cur)),
            LAMBDA v : StartsWithFolded(v, s))

\* C39: typeahead with a search of two or more distinct characters does not
\* move focus while the current match still starts with the search
\* (getNextMatch returns undefined and onMatch is not called); otherwise it
\* returns the first matching value at or after the current position in
\* cyclic order; with an empty candidate list handleTypeaheadSearch leaves
\* the search buffer unchanged, and otherwise appends the key to it.
C39_SeveralCharactersKeepFocus ==
    /\ [](NoSearchUnderWay =>
            \A cur \in CurrentMatches : \A s \in Searches :
                DistinctCharacters(s) =>
                    getNextMatch(TypeaheadValues, s, cur)
                        = IF StartsWithFolded(cur, s) THEN NoMatch
                          ELSE NextFrom(TypeaheadValues, s, cur))
    /\ [][ (event'.widget = "typeahead" /\ event'.op = "search") =>
             /\ typeahead'.candidates = typeahead.candidates
             /\ IF Len(typeahead.candidates) = 0
                THEN typeahead'.search = typeahead.search
                ELSE typeahead'.search = typeahead.search \o event'.typed
             /\ (/\ Len(typeahead.candidates) > 0
                 /\ DistinctCharacters(typeahead'.search)
                 /\ StartsWithFolded(CurrentMatchNow, typeahead'.search)) =>
                    /\ event'.newItem = 0
                    /\ typeahead'.current = typeahead.current
         ]_vars

\* "a" then "b" over "Ba", "ab": "a" took the focus to "ab", and "ab" still
\* begins with the search "ab", so "b" moved nothing
C39_Witness ==
    /\ typeahead.candidates = << <<"B", "a">>, <<"a", "b">> >>
    /\ typeahead.search = <<"a", "b">>
    /\ event.op = "search" /\ event.typed = <<"b">>
    /\ event.newItem = 0 /\ typeahead.current = 2

=============================================================================
